---- MODULE Spec2Model ----
(***************************************************************************)
(* kdotool: the command-pipeline compiler (generate_script, generate_step, *)
(* step_search) and the IPC session of main, as a state machine.           *)
(*                                                                         *)
(* Tokens are strings.  Rust's Option<T> is a sequence of length <= 1      *)
(* (<<>> is None, <<v>> is Some(v)).  A rendered fragment is the record    *)
(* [tpl |-> template name, ctx |-> the bindings it was rendered against,   *)
(*  lead, trail |-> the white space the text begins and ends with]: the    *)
(* template texts live in templates.rs and are opaque here but for the     *)
(* line break each is taken to begin and end with.  A text is a sequence   *)
(* of fragments.                                                           *)
(***************************************************************************)
EXTENDS Integers, Sequences, FiniteSets, TLC

None == <<>>
Some(v) == <<v>>

(***************************************************************************)
(* Bounds of the model.                                                    *)
(***************************************************************************)
\* directive phrases concatenated into one token stream (compiler inputs)
MaxPhrases == 2
\* tokens after the program name in an invocation of main
MaxArgv == 4
\* callback messages the script host delivers during one invocation
MaxMsgs == 2

(***************************************************************************)
(* Lexical layer: what the lexopt-based Parser, i32 parsing and the string *)
(* tests of main.rs do on the tokens of the model's alphabet.              *)
(***************************************************************************)

\* tokens of the form --name, with the name lexopt reports for Long(name)
LongNameOf ==
  [t \in {"--add", "--remove", "--toggle", "--relative", "--pid",
          "--desktop", "--screen", "--limit", "--class", "--classname",
          "--role", "--name", "--all", "--any", "--shortcut", "--dry-run",
          "--help", "--version", "--debug", "--bogus"} |->
     CASE t = "--add" -> "add"
       [] t = "--remove" -> "remove"
       [] t = "--toggle" -> "toggle"
       [] t = "--relative" -> "relative"
       [] t = "--pid" -> "pid"
       [] t = "--desktop" -> "desktop"
       [] t = "--screen" -> "screen"
       [] t = "--limit" -> "limit"
       [] t = "--class" -> "class"
       [] t = "--classname" -> "classname"
       [] t = "--role" -> "role"
       [] t = "--name" -> "name"
       [] t = "--all" -> "all"
       [] t = "--any" -> "any"
       [] t = "--shortcut" -> "shortcut"
       [] t = "--dry-run" -> "dry-run"
       [] t = "--help" -> "help"
       [] t = "--version" -> "version"
       [] t = "--debug" -> "debug"
       [] t = "--bogus" -> "bogus"]

\* tokens of the form -c, with the character lexopt reports for Short(c)
ShortNameOf ==
  [t \in {"-h", "-v", "-d", "-n", "-z"} |->
     CASE t = "-h" -> "h" [] t = "-v" -> "v" [] t = "-d" -> "d"
       [] t = "-n" -> "n" [] t = "-z" -> "z"]

\* str::parse::<i32>: the decimal tokens of the alphabet and their values
IntOf ==
  [t \in {"1", "2", "3", "5", "42", "50", "100", "200", "12345"} |->
     CASE t = "1" -> 1 [] t = "2" -> 2 [] t = "3" -> 3 [] t = "5" -> 5
       [] t = "42" -> 42 [] t = "50" -> 50 [] t = "100" -> 100
       [] t = "200" -> 200 [] t = "12345" -> 12345]

ParseI32(s) == IF s \in DOMAIN IntOf THEN Some(IntOf[s]) ELSE None

\* str::strip_suffix('%') on the tokens that end with '%'
PercentBodyOf ==
  [t \in {"50%", "abc%"} |-> CASE t = "50%" -> "50" [] t = "abc%" -> "abc"]

EndsWithPercent(s) == s \in DOMAIN PercentBodyOf
StripSuffixPercent(s) == PercentBodyOf[s]

\* str::strip_prefix('%') on the tokens that start with '%'
PercentTailOf ==
  [t \in {"%1", "%2", "%3", "%@", "%abc"} |->
     CASE t = "%1" -> "1" [] t = "%2" -> "2" [] t = "%3" -> "3"
       [] t = "%@" -> "@" [] t = "%abc" -> "abc"]

StripPrefixPercent(s) == IF s \in DOMAIN PercentTailOf THEN Some(PercentTailOf[s]) ELSE None

\* str::to_lowercase on the tokens of the alphabet
ToLowercase(s) ==
  CASE s = "MAXIMIZED" -> "maximized"
    [] s = "Minimized" -> "minimized"
    [] OTHER -> s

\* lexopt's classification of one raw token: Long(name), Short(c) or Value(s)
Classify(t) ==
  IF t \in DOMAIN LongNameOf THEN [kind |-> "Long", s |-> LongNameOf[t]]
  ELSE IF t \in DOMAIN ShortNameOf THEN [kind |-> "Short", s |-> ShortNameOf[t]]
  ELSE [kind |-> "Value", s |-> t]

\* Parser::next: the next argument and the parser past it, None at the end
ParserNext(rest) ==
  IF rest = <<>> THEN [arg |-> None, rest |-> rest]
  ELSE [arg |-> Some(Classify(Head(rest))), rest |-> Tail(rest)]

\* parser::next_maybe_num: Parser::next on every token of the alphabet
\* (no token of the alphabet is a negative number)
NextMaybeNum(rest) == ParserNext(rest)

\* Parser::value: the next raw token taken as a value whatever it looks like
ParserValue(rest) ==
  IF rest = <<>> THEN [val |-> None, rest |-> rest]
  ELSE [val |-> Some(Head(rest)), rest |-> Tail(rest)]

\* parser::reset_parser: a fresh parser over the tokens not yet consumed
ResetParser(rest) == rest

\* arg.unexpected(): lexopt's error for an argument no grammar accepts
Unexpected(a) == "unexpected argument"

(***************************************************************************)
(* Window references and the name tables of templates.rs.                  *)
(***************************************************************************)

\* parser::to_window_id: explicit id (numeric shape) first, then %@, then
\* %<integer>; anything else is not a window reference
ToWindowId(s) ==
  IF ParseI32(s) # None THEN Some(s)
  ELSE IF s = "%@" THEN Some(s)
  ELSE IF StripPrefixPercent(s) # None /\ ParseI32(StripPrefixPercent(s)[1]) # None
       THEN Some(s)
  ELSE None

WINDOW_ACTIONS ==
  {"windowstate", "windowmove", "windowsize", "set_desktop_for_window",
   "activatewindow", "windowclose"}

GLOBAL_ACTIONS == {"set_desktop", "set_num_desktops", "get_desktop"}

WINDOWSTATE_PROPERTIES == {"maximized", "minimized"}

\* Handlebars::render_template_with_context: the fragment of a template
\* rendered against a binding context
Render(tpl, ctx) == [tpl |-> tpl, ctx |-> ctx, lead |-> "\n", trail |-> "\n"]

\* str::trim: the text without the white space it begins and ends with
Trim(text) ==
  [i \in 1..Len(text) |->
     [text[i] EXCEPT !.lead = IF i = 1 THEN "" ELSE @,
                     !.trail = IF i = Len(text) THEN "" ELSE @]]

\* add_context: the context with one key inserted or overwritten
AddContext(ctx, key, value) ==
  [k \in DOMAIN ctx \cup {key} |-> IF k = key THEN value ELSE ctx[k]]

(***************************************************************************)
(* generate_step: one directive compiled into a StepResult.  Every grammar *)
(* loop of the code is a recursive operator over its loop-carried locals;  *)
(* a result with err # None is the Err(..) the code returns.               *)
(***************************************************************************)

\* Err(..) returned out of generate_step / step_search
StepErr(msg, rest) ==
  [err |-> Some(msg), script |-> None, is_query |-> FALSE, next_arg |-> None,
   rest |-> rest]

\* Ok(StepResult { script, is_query, next_arg })
StepOk(script, is_query, next_arg, rest) ==
  [err |-> None, script |-> Some(script), is_query |-> is_query,
   next_arg |-> next_arg, rest |-> rest]

\* what the argument match of one window-action or global-action leaves:
\* the error it returned, or action_script with the locals read after it
ActionErr(msg, st) ==
  [err |-> Some(msg), action |-> None, arg_window_id |-> st.arg_window_id,
   next_arg |-> st.next_arg, rest |-> st.rest]

ActionOk(action_script, st) ==
  [err |-> None, action |-> Some(action_script),
   arg_window_id |-> st.arg_window_id, next_arg |-> st.next_arg,
   rest |-> st.rest]

\* savewindowstack | loadwindowstack: the argument loop
RECURSIVE StackNameLoop(_)
StackNameLoop(st) ==
  LET n == ParserNext(st.rest) IN
  IF n.arg = None THEN st
  ELSE LET a == n.arg[1] IN
    IF a.kind = "Value" /\ st.arg_name = None
      THEN StackNameLoop([st EXCEPT !.rest = n.rest, !.arg_name = Some(a.s)])
    ELSE IF a.kind = "Value"
      THEN [st EXCEPT !.rest = n.rest, !.next_arg = Some(a.s)]
    ELSE [st EXCEPT !.rest = n.rest, !.err = Some(Unexpected(a))]

\* faulty variant of StackNameStep: savewindowstack is a query as well
StackNameStep_BothQueries(command, st, ctx) ==
  IF st.err # None THEN StepErr(st.err[1], st.rest)
  ELSE IF st.arg_name = None THEN StepErr("missing argument 'name'", st.rest)
  ELSE StepOk(Render(IF command = "savewindowstack" THEN "STEP_SAVEWINDOWSTACK"
                                                     ELSE "STEP_LOADWINDOWSTACK",
                     AddContext(ctx, "name", st.arg_name[1])),
              TRUE, st.next_arg, st.rest)

\* savewindowstack | loadwindowstack: the step from the locals st the
\* argument loop left
StackNameStep(command, st, ctx) ==
  IF st.err # None THEN StepErr(st.err[1], st.rest)
  ELSE IF st.arg_name = None THEN StepErr("missing argument 'name'", st.rest)
  ELSE StepOk(Render(IF command = "savewindowstack" THEN "STEP_SAVEWINDOWSTACK"
                                                     ELSE "STEP_LOADWINDOWSTACK",
                     AddContext(ctx, "name", st.arg_name[1])),
              command = "loadwindowstack", st.next_arg, st.rest)

\* savewindowstack | loadwindowstack
StepStackName(command, rest, ctx) ==
  StackNameStep(command,
    StackNameLoop([rest |-> rest, arg_name |-> None, next_arg |-> None,
                   err |-> None]),
    ctx)

\* the statement one --add/--remove/--toggle flag appends to opt_windowstate
WindowstateJs(option, prop) ==
  CASE option = "add" -> "w." \o prop \o " = true; "
    [] option = "remove" -> "w." \o prop \o " = false; "
    [] option = "toggle" -> "w." \o prop \o " = !w." \o prop \o "; "

\* faulty variant of WindowstateLoop: the statement of a flag is put in
\* front of the statements gathered so far
RECURSIVE WindowstateLoop_Prepends(_)
WindowstateLoop_Prepends(st) ==
  LET n == ParserNext(st.rest) IN
  IF n.arg = None THEN st
  ELSE LET a == n.arg[1] IN
    IF a.kind = "Long" /\ a.s \in {"add", "remove", "toggle"}
      THEN LET v == ParserValue(n.rest) IN
           IF v.val = None
             THEN [st EXCEPT !.rest = v.rest, !.err = Some("missing argument for option")]
           ELSE LET key == ToLowercase(v.val[1]) IN
             IF key \in WINDOWSTATE_PROPERTIES
               THEN WindowstateLoop_Prepends(
                      [st EXCEPT !.rest = v.rest,
                                 !.opt_windowstate = WindowstateJs(a.s, key) \o @])
             ELSE [st EXCEPT !.rest = v.rest,
                             !.err = Some("unsupported property '" \o key \o "'")]
    ELSE IF a.kind = "Value" /\ st.arg_window_id = None
      THEN LET id == ToWindowId(a.s) IN
           IF id # None
             THEN WindowstateLoop_Prepends([st EXCEPT !.rest = n.rest, !.arg_window_id = id])
           ELSE WindowstateLoop_Prepends([st EXCEPT !.rest = n.rest, !.next_arg = Some(a.s)])
    ELSE IF a.kind = "Value"
      THEN [st EXCEPT !.rest = n.rest, !.next_arg = Some(a.s)]
    ELSE [st EXCEPT !.rest = n.rest, !.err = Some(Unexpected(a))]

\* windowstate: the argument loop
RECURSIVE WindowstateLoop(_)
WindowstateLoop(st) ==
  LET n == ParserNext(st.rest) IN
  IF n.arg = None THEN st
  ELSE LET a == n.arg[1] IN
    IF a.kind = "Long" /\ a.s \in {"add", "remove", "toggle"}
      THEN LET v == ParserValue(n.rest) IN
           IF v.val = None
             THEN [st EXCEPT !.rest = v.rest, !.err = Some("missing argument for option")]
           ELSE LET key == ToLowercase(v.val[1]) IN
             IF key \in WINDOWSTATE_PROPERTIES
               THEN WindowstateLoop(
                      [st EXCEPT !.rest = v.rest,
                                 !.opt_windowstate = @ \o WindowstateJs(a.s, key)])
             ELSE [st EXCEPT !.rest = v.rest, !.err = Some("unsupported property '" \o key \o "'")]
    ELSE IF a.kind = "Value" /\ st.arg_window_id = None
      THEN LET id == ToWindowId(a.s) IN
           IF id # None
             THEN WindowstateLoop([st EXCEPT !.rest = n.rest, !.arg_window_id = id])
           ELSE WindowstateLoop([st EXCEPT !.rest = n.rest, !.next_arg = Some(a.s)])
    ELSE IF a.kind = "Value"
      THEN [st EXCEPT !.rest = n.rest, !.next_arg = Some(a.s)]
    ELSE [st EXCEPT !.rest = n.rest, !.err = Some(Unexpected(a))]

\* windowmove | windowsize: the argument loop
RECURSIVE WindowmoveLoop(_, _)
WindowmoveLoop(command, st) ==
  LET n == NextMaybeNum(st.rest) IN
  IF n.arg = None THEN st
  ELSE LET a == n.arg[1] IN
    IF a.kind = "Long" /\ a.s = "relative" /\ command = "windowmove"
      THEN WindowmoveLoop(command, [st EXCEPT !.rest = n.rest, !.opt_relative = TRUE])
    ELSE IF a.kind = "Value" /\ st.arg_window_id = None
      THEN LET id == ToWindowId(a.s) IN
           IF id # None
             THEN WindowmoveLoop(command, [st EXCEPT !.rest = n.rest, !.arg_window_id = id])
           ELSE WindowmoveLoop(command, [st EXCEPT !.rest = n.rest, !.arg_x = Some(a.s)])
    ELSE IF a.kind = "Value" /\ st.arg_x = None
      THEN WindowmoveLoop(command, [st EXCEPT !.rest = n.rest, !.arg_x = Some(a.s)])
    ELSE IF a.kind = "Value" /\ st.arg_y = None
      THEN WindowmoveLoop(command, [st EXCEPT !.rest = n.rest, !.arg_y = Some(a.s)])
    ELSE IF a.kind = "Value"
      THEN [st EXCEPT !.rest = n.rest, !.next_arg = Some(a.s)]
    ELSE [st EXCEPT !.rest = n.rest, !.err = Some(Unexpected(a))]

\* one axis of windowmove | windowsize: keyword (unset), N% or N
Axis(arg, keyword) ==
  IF arg = keyword THEN [err |-> None, abs |-> "", percent |-> ""]
  ELSE IF EndsWithPercent(arg)
    THEN LET s == StripSuffixPercent(arg) IN
         IF ParseI32(s) = None
           THEN [err |-> Some("invalid digit found in string"), abs |-> "", percent |-> ""]
         ELSE [err |-> None, abs |-> "", percent |-> s]
  ELSE IF ParseI32(arg) = None
    THEN [err |-> Some("invalid digit found in string"), abs |-> "", percent |-> ""]
  ELSE [err |-> None, abs |-> arg, percent |-> ""]

\* windowstate: action_script from the locals st the argument loop left
WindowstateAction(command, st, ctx) ==
  IF st.err # None THEN ActionErr(st.err[1], st)
  ELSE ActionOk(Render("WINDOW_ACTIONS." \o command,
                       AddContext(ctx, "windowstate", st.opt_windowstate)), st)

\* windowstate: action_script, or the error
ActionWindowstate(command, rest, ctx) ==
  WindowstateAction(command,
    WindowstateLoop([rest |-> rest, arg_window_id |-> None, next_arg |-> None,
                     opt_windowstate |-> "", err |-> None]),
    ctx)

\* windowmove | windowsize: action_script from the locals st the argument
\* loop left
WindowmoveAction(command, st, ctx) ==
  IF st.err # None THEN ActionErr(st.err[1], st)
  ELSE IF st.arg_x = None THEN ActionErr("missing argument 'x'", st)
  ELSE LET ax == Axis(st.arg_x[1], "x") IN
    IF ax.err # None THEN ActionErr(ax.err[1], st)
    ELSE IF st.arg_y = None THEN ActionErr("missing argument 'y'", st)
    ELSE LET ay == Axis(st.arg_y[1], "y") IN
      IF ay.err # None THEN ActionErr(ay.err[1], st)
      ELSE ActionOk(Render("WINDOW_ACTIONS." \o command,
             AddContext(AddContext(AddContext(AddContext(AddContext(ctx,
               "relative", st.opt_relative), "x", ax.abs), "y", ay.abs),
               "x_percent", ax.percent), "y_percent", ay.percent)), st)

\* windowmove | windowsize: action_script, or the error
ActionWindowmove(command, rest, ctx) ==
  WindowmoveAction(command,
    WindowmoveLoop(command,
      [rest |-> rest, arg_window_id |-> None, arg_x |-> None, arg_y |-> None,
       opt_relative |-> FALSE, next_arg |-> None, err |-> None]),
    ctx)

\* set_desktop_for_window: the argument loop
RECURSIVE DesktopForWindowLoop(_)
DesktopForWindowLoop(st) ==
  LET n == NextMaybeNum(st.rest) IN
  IF n.arg = None THEN st
  ELSE LET a == n.arg[1] IN
    IF a.kind = "Value" /\ st.arg_window_id = None
      THEN LET id == ToWindowId(a.s) IN
           IF id # None
             THEN DesktopForWindowLoop([st EXCEPT !.rest = n.rest, !.arg_window_id = id])
           ELSE IF ParseI32(a.s) = None
             THEN [st EXCEPT !.rest = n.rest, !.err = Some("invalid digit found in string")]
           ELSE DesktopForWindowLoop(
                  [st EXCEPT !.rest = n.rest, !.arg_desktop_id = ParseI32(a.s)])
    ELSE IF a.kind = "Value" /\ st.arg_desktop_id = None
      THEN IF ParseI32(a.s) = None
             THEN [st EXCEPT !.rest = n.rest, !.err = Some("invalid digit found in string")]
           ELSE DesktopForWindowLoop(
                  [st EXCEPT !.rest = n.rest, !.arg_desktop_id = ParseI32(a.s)])
    ELSE IF a.kind = "Value"
      THEN [st EXCEPT !.rest = n.rest, !.next_arg = Some(a.s)]
    ELSE [st EXCEPT !.rest = n.rest, !.err = Some(Unexpected(a))]

\* set_desktop_for_window: action_script from the locals st the argument
\* loop left
DesktopForWindowAction(command, st, ctx) ==
  IF st.err # None THEN ActionErr(st.err[1], st)
  ELSE ActionOk(Render("WINDOW_ACTIONS." \o command,
                       AddContext(ctx, "desktop_id", st.arg_desktop_id)), st)

\* set_desktop_for_window: action_script, or the error
ActionDesktopForWindow(command, rest, ctx) ==
  DesktopForWindowAction(command,
    DesktopForWindowLoop([rest |-> rest, arg_window_id |-> None,
                          arg_desktop_id |-> None, next_arg |-> None,
                          err |-> None]),
    ctx)

\* every other window-action: the argument loop
RECURSIVE WindowOnlyLoop(_)
WindowOnlyLoop(st) ==
  LET n == NextMaybeNum(st.rest) IN
  IF n.arg = None THEN st
  ELSE LET a == n.arg[1] IN
    IF a.kind = "Value" /\ st.arg_window_id = None
      THEN LET id == ToWindowId(a.s) IN
           IF id # None
             THEN WindowOnlyLoop([st EXCEPT !.rest = n.rest, !.arg_window_id = id])
           ELSE [st EXCEPT !.rest = n.rest, !.next_arg = Some(a.s)]
    ELSE IF a.kind = "Value"
      THEN [st EXCEPT !.rest = n.rest, !.next_arg = Some(a.s)]
    ELSE [st EXCEPT !.rest = n.rest, !.err = Some(Unexpected(a))]

\* every other window-action: action_script from the locals st the
\* argument loop left
WindowOnlyAction(command, st, ctx) ==
  IF st.err # None THEN ActionErr(st.err[1], st)
  ELSE ActionOk(Render("WINDOW_ACTIONS." \o command, ctx), st)

\* every other window-action: action_script, or the error
ActionWindowOnly(command, rest, ctx) ==
  WindowOnlyAction(command,
    WindowOnlyLoop([rest |-> rest, arg_window_id |-> None, next_arg |-> None,
                    err |-> None]),
    ctx)

\* faulty variant of WrapWindowAction: the stack item is counted from zero
WrapWindowAction_ZeroBased(arg_window_id, action_script, ctx) ==
  LET window_id == IF arg_window_id = None THEN "%1" ELSE arg_window_id[1]
      actx == AddContext(ctx, "action", action_script)
      s == StripPrefixPercent(window_id) IN
  IF window_id = "%@"
    THEN [err |-> None, script |-> Some(Render("STEP_ACTION_ON_STACK_ALL", actx))]
  ELSE IF s # None
    THEN IF ParseI32(s[1]) = None
           THEN [err |-> Some("invalid digit found in string"), script |-> None]
         ELSE [err |-> None,
               script |-> Some(Render("STEP_ACTION_ON_STACK_ITEM",
                                 AddContext(actx, "item_index", ParseI32(s[1])[1] - 1)))]
  ELSE [err |-> None,
        script |-> Some(Render("STEP_ACTION_ON_WINDOW_ID",
                          AddContext(actx, "window_id", window_id)))]

\* the wrapper of a window-action: all of the stack, one stack item, or an
\* explicit window id, by the resolved window reference
WrapWindowAction(arg_window_id, action_script, ctx) ==
  LET window_id == IF arg_window_id = None THEN "%1" ELSE arg_window_id[1]
      actx == AddContext(ctx, "action", action_script)
      s == StripPrefixPercent(window_id) IN
  IF window_id = "%@"
    THEN [err |-> None, script |-> Some(Render("STEP_ACTION_ON_STACK_ALL", actx))]
  ELSE IF s # None
    THEN IF ParseI32(s[1]) = None
           THEN [err |-> Some("invalid digit found in string"), script |-> None]
         ELSE [err |-> None,
               script |-> Some(Render("STEP_ACTION_ON_STACK_ITEM",
                                 AddContext(actx, "item_index", ParseI32(s[1])[1])))]
  ELSE [err |-> None,
        script |-> Some(Render("STEP_ACTION_ON_WINDOW_ID",
                          AddContext(actx, "window_id", window_id)))]

\* a command of WINDOW_ACTIONS: the match on the command
WindowAction(command, rest, ctx) ==
  CASE command = "windowstate" -> ActionWindowstate(command, rest, ctx)
    [] command \in {"windowmove", "windowsize"} ->
         ActionWindowmove(command, rest, ctx)
    [] command = "set_desktop_for_window" ->
         ActionDesktopForWindow(command, rest, ctx)
    [] OTHER -> ActionWindowOnly(command, rest, ctx)

\* a command of WINDOW_ACTIONS: the step from the wrapped action w
WrappedStep(r, w) ==
  IF w.err # None THEN StepErr(w.err[1], r.rest)
  ELSE StepOk(w.script[1], FALSE, r.next_arg, r.rest)

\* a command of WINDOW_ACTIONS: the step from what the match r left
WindowActionStep(r, ctx) ==
  IF r.err # None THEN StepErr(r.err[1], r.rest)
  ELSE WrappedStep(r, WrapWindowAction(r.arg_window_id, r.action[1], ctx))

\* a command of WINDOW_ACTIONS
StepWindowAction(command, rest, ctx) ==
  WindowActionStep(WindowAction(command, rest, ctx), ctx)

\* set_desktop | set_num_desktops: the argument loop
RECURSIVE DesktopNumLoop(_)
DesktopNumLoop(st) ==
  LET n == NextMaybeNum(st.rest) IN
  IF n.arg = None THEN st
  ELSE LET a == n.arg[1] IN
    IF a.kind = "Value" /\ st.arg_n = None
      THEN IF ParseI32(a.s) = None
             THEN [st EXCEPT !.rest = n.rest, !.err = Some("invalid digit found in string")]
           ELSE DesktopNumLoop([st EXCEPT !.rest = n.rest, !.arg_n = ParseI32(a.s)])
    ELSE IF a.kind = "Value"
      THEN [st EXCEPT !.rest = n.rest, !.next_arg = Some(a.s)]
    ELSE [st EXCEPT !.rest = n.rest, !.err = Some(Unexpected(a))]

\* set_desktop | set_num_desktops: the step from the locals st the
\* argument loop left
DesktopNumStep(command, st, ctx) ==
  IF st.err # None THEN StepErr(st.err[1], st.rest)
  ELSE IF st.arg_n # None
    THEN StepOk(Render("STEP_GLOBAL_ACTION",
                  AddContext(ctx, "action",
                    Render("GLOBAL_ACTIONS." \o command,
                           AddContext(ctx, "n", st.arg_n[1])))),
                FALSE, st.next_arg, st.rest)
  ELSE IF command = "set_desktop"
    THEN StepErr("missing argument 'desktop_id'", st.rest)
  ELSE StepErr("missing argument 'num'", st.rest)

\* a command of GLOBAL_ACTIONS
StepGlobalAction(command, rest, ctx) ==
  IF command \in {"set_desktop", "set_num_desktops"}
    THEN DesktopNumStep(command,
           DesktopNumLoop([rest |-> rest, arg_n |-> None, next_arg |-> None,
                           err |-> None]),
           ctx)
  ELSE StepOk(Render("STEP_GLOBAL_ACTION",
                AddContext(ctx, "action", Render("GLOBAL_ACTIONS." \o command, ctx))),
              FALSE, None, rest)

\* step_search: Options as first built, from the bindings of the step
SearchOptions(ctx) ==
  [debug |-> ctx.debug, kde5 |-> ctx.debug,
   match_class |-> FALSE, match_classname |-> FALSE, match_role |-> FALSE,
   match_name |-> FALSE, match_pid |-> FALSE, pid |-> 0,
   match_desktop |-> FALSE, desktop |-> 0, match_screen |-> FALSE,
   screen |-> 0, limit |-> 0, match_all |-> FALSE, search_term |-> ""]

\* step_search: the argument loop
RECURSIVE SearchLoop(_)
SearchLoop(st) ==
  LET n == ParserNext(st.rest)
      \* an option that takes an integer: parser.value()?.parse()?
      IntOption(flag, field) ==
        LET v == ParserValue(n.rest) IN
        IF v.val = None
          THEN [st EXCEPT !.rest = v.rest, !.err = Some("missing argument for option")]
        ELSE IF ParseI32(v.val[1]) = None
          THEN [st EXCEPT !.rest = v.rest, !.err = Some("invalid digit found in string")]
        ELSE SearchLoop(
               [st EXCEPT !.rest = v.rest,
                          !.opt = IF flag = ""
                                    THEN [@ EXCEPT ![field] = ParseI32(v.val[1])[1]]
                                  ELSE [@ EXCEPT ![flag] = TRUE,
                                                 ![field] = ParseI32(v.val[1])[1]]])
      Flag(field, b) ==
        SearchLoop([st EXCEPT !.rest = n.rest, !.opt = [@ EXCEPT ![field] = b]])
  IN
  IF n.arg = None THEN st
  ELSE LET a == n.arg[1] IN
    IF a.kind = "Long" /\ a.s = "class" THEN Flag("match_class", TRUE)
    ELSE IF a.kind = "Long" /\ a.s = "classname" THEN Flag("match_classname", TRUE)
    ELSE IF a.kind = "Long" /\ a.s = "role" THEN Flag("match_role", TRUE)
    ELSE IF a.kind = "Long" /\ a.s = "name" THEN Flag("match_name", TRUE)
    ELSE IF a.kind = "Long" /\ a.s = "pid" THEN IntOption("match_pid", "pid")
    ELSE IF a.kind = "Long" /\ a.s = "desktop" THEN IntOption("match_desktop", "desktop")
    ELSE IF a.kind = "Long" /\ a.s = "screen" THEN IntOption("match_screen", "screen")
    ELSE IF a.kind = "Long" /\ a.s = "limit" THEN IntOption("", "limit")
    ELSE IF a.kind = "Long" /\ a.s = "all" THEN Flag("match_all", TRUE)
    ELSE IF a.kind = "Long" /\ a.s = "any" THEN Flag("match_all", FALSE)
    ELSE IF a.kind = "Value" /\ st.opt.search_term = ""
      THEN SearchLoop([st EXCEPT !.rest = n.rest, !.opt = [@ EXCEPT !.search_term = a.s]])
    ELSE IF a.kind = "Value"
      THEN [st EXCEPT !.rest = n.rest, !.next_arg = Some(a.s)]
    ELSE [st EXCEPT !.rest = n.rest, !.err = Some(Unexpected(a))]

\* faulty variant of SearchDefaults: the four attribute matches are
\* enabled whatever flags were given
SearchDefaults_EnablesAll(opt) ==
  [opt EXCEPT !.match_class = TRUE, !.match_classname = TRUE,
              !.match_role = TRUE, !.match_name = TRUE]

\* step_search: the default attribute matches when none was asked for
SearchDefaults(opt) ==
  IF ~(opt.match_class \/ opt.match_classname \/ opt.match_role \/ opt.match_name)
    THEN [opt EXCEPT !.match_class = TRUE, !.match_classname = TRUE,
                     !.match_role = TRUE, !.match_name = TRUE]
  ELSE opt

\* step_search: the step from the locals st the argument loop left
SearchStep(st) ==
  IF st.err # None THEN StepErr(st.err[1], st.rest)
  ELSE StepOk(Render("STEP_SEARCH", SearchDefaults(st.opt)), TRUE, st.next_arg, st.rest)

\* step_search
StepSearch(rest, ctx) ==
  SearchStep(SearchLoop([rest |-> rest, opt |-> SearchOptions(ctx),
                         next_arg |-> None, err |-> None]))

\* generate_step
GenerateStep(command, rest, render_context) ==
  LET ctx == AddContext(render_context, "step_name", command) IN
  CASE command = "search" -> StepSearch(rest, ctx)
    [] command = "getactivewindow" ->
         StepOk(Render("STEP_GETACTIVEWINDOW", ctx), TRUE, None, rest)
    [] command \in {"savewindowstack", "loadwindowstack"} ->
         StepStackName(command, rest, ctx)
    [] OTHER ->
         IF command \in WINDOW_ACTIONS THEN StepWindowAction(command, rest, ctx)
         ELSE IF command \in GLOBAL_ACTIONS THEN StepGlobalAction(command, rest, ctx)
         ELSE StepErr("Unknown command: " \o command, rest)

(***************************************************************************)
(* The state of one invocation of main.                                    *)
(***************************************************************************)
VARIABLES
  argv,            \* the arguments after the program name
  env_kde,         \* KDE_SESSION_VERSION, None when unset
  pc,              \* where the main flow stands
  context,         \* Globals
  opts,            \* opt_help, opt_version, opt_dry_run, opt_remove
  next_arg,        \* main's next_arg: the first command name
  parser,          \* the tokens the Parser has not consumed yet
  command,         \* generate_script: the command being compiled
  full_script,     \* generate_script: the fragments pushed so far
  last_step_is_query,
  steps,           \* the StepResults generate_step returned, in order
  script_contents, \* what generate_script returned to main
  error,           \* the Err main returned with, None while there is none
  file,            \* the temporary script file
  calls,           \* the remote calls issued, in order
  replies,         \* the replies the remote calls returned with, in order
  script_id,       \* the id loadScript returned
  listener,        \* whether the receiver thread runs
  delivered,       \* incoming calls the receiver callback has handled
  MESSAGES,        \* the message log
  read_guard,      \* whether main holds MESSAGES.read()
  drain_i,         \* the drain loop's position in the log
  blocked,         \* the entry the receiver callback waits to push, if any
  out              \* what the process printed, in order

vars ==
  <<argv, env_kde, pc, context, opts, next_arg, parser, command, full_script,
    last_step_is_query, steps, script_contents, error, file, calls, replies,
    script_id, listener, delivered, MESSAGES, read_guard, drain_i, blocked, out>>

compileVars == <<command, full_script, last_step_is_query, steps, script_contents>>
sessionVars == <<calls, replies, script_id, listener, delivered, MESSAGES,
                 read_guard, drain_i, blocked>>

\* Vec<String>::join(" ")
RECURSIVE Join(_)
Join(args) ==
  IF args = <<>> THEN ""
  ELSE IF Len(args) = 1 THEN args[1]
  ELSE args[1] \o " " \o Join(Tail(args))

\* Globals { cmdline, ..Default::default() } and the kde5 flag from the
\* environment
InitialContext(av, env) ==
  [dbus_addr |-> "", cmdline |-> Join(<<"kdotool">> \o av), debug |-> FALSE,
   kde5 |-> (env = Some("5")), marker |-> "", script_name |-> "",
   shortcut |-> ""]

\* main: the loop over the global options
RECURSIVE GlobalsLoop(_)
GlobalsLoop(st) ==
  LET n == ParserNext(st.rest)
      WithValue(field, remove) ==
        LET v == ParserValue(n.rest) IN
        IF v.val = None
          THEN [st EXCEPT !.rest = v.rest, !.err = Some("missing argument for option"),
                          !.opt_remove = @ \/ remove]
        ELSE GlobalsLoop([st EXCEPT !.rest = v.rest,
                                    !.context = [@ EXCEPT ![field] = v.val[1]],
                                    !.opt_remove = @ \/ remove])
  IN
  IF n.arg = None THEN st
  ELSE LET a == n.arg[1] IN
    IF (a.kind = "Short" /\ a.s = "h") \/ (a.kind = "Long" /\ a.s = "help")
      THEN GlobalsLoop([st EXCEPT !.rest = n.rest, !.opt_help = TRUE])
    ELSE IF (a.kind = "Short" /\ a.s = "v") \/ (a.kind = "Long" /\ a.s = "version")
      THEN GlobalsLoop([st EXCEPT !.rest = n.rest, !.opt_version = TRUE])
    ELSE IF (a.kind = "Short" /\ a.s = "d") \/ (a.kind = "Long" /\ a.s = "debug")
      THEN GlobalsLoop([st EXCEPT !.rest = n.rest,
                                  !.context = [@ EXCEPT !.debug = TRUE]])
    ELSE IF (a.kind = "Short" /\ a.s = "n") \/ (a.kind = "Long" /\ a.s = "dry-run")
      THEN GlobalsLoop([st EXCEPT !.rest = n.rest, !.opt_dry_run = TRUE])
    ELSE IF a.kind = "Long" /\ a.s = "shortcut" THEN WithValue("shortcut", FALSE)
    ELSE IF a.kind = "Long" /\ a.s = "name" THEN WithValue("script_name", FALSE)
    ELSE IF a.kind = "Long" /\ a.s = "remove" THEN WithValue("script_name", TRUE)
    ELSE IF a.kind = "Value"
      THEN [st EXCEPT !.rest = n.rest, !.next_arg = Some(a.s)]
    ELSE [st EXCEPT !.rest = n.rest, !.err = Some(Unexpected(a))]

\* main up to the end of the global options
ParseGlobals(av, env) ==
  GlobalsLoop([rest |-> av, context |-> InitialContext(av, env),
               opt_help |-> FALSE, opt_version |-> FALSE, opt_dry_run |-> FALSE,
               opt_remove |-> FALSE, next_arg |-> None, err |-> None])

\* an Err leaving main: the message and the context lines added on the way
Failure(msg, ctxline) == Some([msg |-> msg, context |-> ctxline])

\* the temporary file after main has returned: NamedTempFile and TempPath
\* remove it when dropped
Dropped(f) == IF f = "none" THEN "none" ELSE "removed"

\* the incoming method calls the private connection may receive: member
\* name and first string argument, either of which may be absent
Incoming ==
  {[member |-> Some("result"), arg |-> Some("w1")],
   [member |-> Some("error"), arg |-> Some("boom")],
   [member |-> Some("ping"), arg |-> Some("p")],
   [member |-> Some("result"), arg |-> None]}

\* main returning: Ok(()) or Err(e); the process ends and its temporary
\* file is dropped
Return(err) ==
  /\ pc' = IF err = None THEN "done" ELSE "failed"
  /\ error' = err
  /\ file' = Dropped(file)

Running == pc \notin {"done", "failed"}

(***************************************************************************)
(* main, before compilation.                                               *)
(***************************************************************************)

\* main: the state after the loop over the global options left st
ParsedTo(st) ==
     /\ context' = st.context
     /\ opts' = [help |-> st.opt_help, version |-> st.opt_version,
                 dry_run |-> st.opt_dry_run, remove |-> st.opt_remove]
     /\ next_arg' = st.next_arg
     /\ parser' = st.rest
     /\ IF st.err # None
          THEN Return(Failure(st.err[1], None))
        ELSE pc' = "parsed" /\ UNCHANGED <<error, file>>

\* main: Globals, KDE_SESSION_VERSION and the global options
ParseGlobalOptions ==
  /\ pc = "start"
  /\ ParsedTo(ParseGlobals(argv, env_kde))
  /\ UNCHANGED <<argv, env_kde, out>>
  /\ UNCHANGED compileVars
  /\ UNCHANGED sessionVars

\* main: no command, or help asked for
ShowHelp ==
  /\ pc = "parsed"
  /\ next_arg = None \/ opts.help
  /\ out' = Append(out, [stream |-> "stdout", kind |-> "help", text |-> "Usage"])
  /\ Return(None)
  /\ UNCHANGED <<argv, env_kde, context, opts, next_arg, parser>>
  /\ UNCHANGED compileVars
  /\ UNCHANGED sessionVars

\* main: version asked for
ShowVersion ==
  /\ pc = "parsed"
  /\ ~(next_arg = None \/ opts.help)
  /\ opts.version
  /\ out' = Append(out, [stream |-> "stdout", kind |-> "version", text |-> "kdotool v"])
  /\ Return(None)
  /\ UNCHANGED <<argv, env_kde, context, opts, next_arg, parser>>
  /\ UNCHANGED compileVars
  /\ UNCHANGED sessionVars

\* main: the logger and the control connection to KWin
ConnectKwin ==
  /\ pc = "parsed"
  /\ ~(next_arg = None \/ opts.help)
  /\ ~opts.version
  /\ \E ok \in BOOLEAN :
       IF ok THEN pc' = "connected" /\ UNCHANGED <<error, file>>
       ELSE Return(Failure("dbus: no session bus", None))
  /\ UNCHANGED <<argv, env_kde, context, opts, next_arg, parser, out>>
  /\ UNCHANGED compileVars
  /\ UNCHANGED sessionVars

\* a blocking remote call leaving: it is recorded and awaits its reply
Issue(method, args) ==
  /\ calls' = Append(calls, [method |-> method, args |-> args])
  /\ UNCHANGED replies

\* the reply to a blocking remote call (ok), or its failure or timeout
Reply(method, ok) == replies' = Append(replies, [method |-> method, ok |-> ok])

\* main: --remove issues unloadScript
RemoveCall ==
  /\ pc = "connected"
  /\ opts.remove
  /\ Issue("unloadScript", <<context.script_name>>)
  /\ pc' = "remove_wait"
  /\ UNCHANGED <<argv, env_kde, context, opts, next_arg, parser, error, file, out>>
  /\ UNCHANGED compileVars
  /\ UNCHANGED <<script_id, listener, delivered, MESSAGES, read_guard, drain_i, blocked>>

\* main: unloadScript replies (or fails, or times out) and main returns
RemoveReturn ==
  /\ pc = "remove_wait"
  /\ \E ok \in BOOLEAN :
       /\ Reply("unloadScript", ok)
       /\ Return(IF ok THEN None ELSE Failure("dbus: unloadScript failed", None))
  /\ UNCHANGED <<argv, env_kde, context, opts, next_arg, parser, out>>
  /\ UNCHANGED compileVars
  /\ UNCHANGED <<calls, script_id, listener, delivered, MESSAGES, read_guard, drain_i, blocked>>

\* main: the private connection (its unique name is dbus_addr) and the
\* temporary file (its file name is the marker); either may fail, the file
\* after dbus_addr was set
Prepare ==
  /\ pc = "connected"
  /\ ~opts.remove
  /\ \E outcome \in {"ok", "no_bus", "no_file"} :
       IF outcome = "ok"
         THEN /\ context' = [context EXCEPT !.dbus_addr = ":1.99",
                                            !.marker = "kdotool-Xy12"]
              /\ file' = "created"
              /\ pc' = "gen_header"
              /\ UNCHANGED error
       ELSE IF outcome = "no_bus"
         THEN Return(Failure("dbus: no session bus", None)) /\ UNCHANGED context
       ELSE /\ context' = [context EXCEPT !.dbus_addr = ":1.99"]
            /\ Return(Failure("io: no temporary file", None))
  /\ UNCHANGED <<argv, env_kde, opts, next_arg, parser, out>>
  /\ UNCHANGED compileVars
  /\ UNCHANGED sessionVars

(***************************************************************************)
(* generate_script.                                                        *)
(***************************************************************************)

\* generate_script: the header rendered, command set to the first name
GenHeader ==
  /\ pc = "gen_header"
  /\ full_script' = <<Render("SCRIPT_HEADER", context)>>
  /\ command' = next_arg[1]
  /\ pc' = "gen_step"
  /\ UNCHANGED <<argv, env_kde, context, opts, next_arg, parser, error, file, out,
                 last_step_is_query, steps, script_contents>>
  /\ UNCHANGED sessionVars

\* faulty variant of AfterStep: the pushback of the step is ignored and
\* the next command is always read from the stream
AfterStep_IgnoresPushback(cmd, r) ==
  IF r.err # None
    THEN [err |-> Failure(r.err[1], Some("in command '" \o cmd \o "'")),
          step |-> None, command |-> cmd, rest |-> r.rest, break |-> FALSE]
  ELSE LET n == ParserNext(r.rest) IN
    IF n.arg = None
      THEN [err |-> None, step |-> Some(r), command |-> cmd, rest |-> n.rest,
            break |-> TRUE]
    ELSE IF n.arg[1].kind = "Value"
      THEN [err |-> None, step |-> Some(r), command |-> n.arg[1].s,
            rest |-> n.rest, break |-> FALSE]
    ELSE [err |-> Failure(Unexpected(n.arg[1]), None), step |-> Some(r),
          command |-> cmd, rest |-> n.rest, break |-> FALSE]

\* faulty variant of AfterStep: the error of a directive is passed on
\* without the context that names the directive
AfterStep_LosesContext(cmd, r) ==
  IF r.err # None
    THEN [err |-> Failure(r.err[1], None),
          step |-> None, command |-> cmd, rest |-> r.rest, break |-> FALSE]
  ELSE IF r.next_arg # None
    THEN [err |-> None, step |-> Some(r), command |-> r.next_arg[1],
          rest |-> r.rest, break |-> FALSE]
  ELSE LET n == ParserNext(r.rest) IN
    IF n.arg = None
      THEN [err |-> None, step |-> Some(r), command |-> cmd, rest |-> n.rest,
            break |-> TRUE]
    ELSE IF n.arg[1].kind = "Value"
      THEN [err |-> None, step |-> Some(r), command |-> n.arg[1].s,
            rest |-> n.rest, break |-> FALSE]
    ELSE [err |-> Failure(Unexpected(n.arg[1]), None), step |-> Some(r),
          command |-> cmd, rest |-> n.rest, break |-> FALSE]

\* faulty variant of AfterStep: the value that names the next command is
\* looked at but left in the stream
AfterStep_PeeksCommand(cmd, r) ==
  IF r.err # None
    THEN [err |-> Failure(r.err[1], Some("in command '" \o cmd \o "'")),
          step |-> None, command |-> cmd, rest |-> r.rest, break |-> FALSE]
  ELSE IF r.next_arg # None
    THEN [err |-> None, step |-> Some(r), command |-> r.next_arg[1],
          rest |-> r.rest, break |-> FALSE]
  ELSE LET n == ParserNext(r.rest) IN
    IF n.arg = None
      THEN [err |-> None, step |-> Some(r), command |-> cmd, rest |-> n.rest,
            break |-> TRUE]
    ELSE IF n.arg[1].kind = "Value"
      THEN [err |-> None, step |-> Some(r), command |-> n.arg[1].s,
            rest |-> r.rest, break |-> FALSE]
    ELSE [err |-> Failure(Unexpected(n.arg[1]), None), step |-> Some(r),
          command |-> cmd, rest |-> n.rest, break |-> FALSE]

\* generate_script: what follows generate_step having returned r in one
\* iteration of the loop
AfterStep(cmd, r) ==
  IF r.err # None
    THEN [err |-> Failure(r.err[1], Some("in command '" \o cmd \o "'")),
          step |-> None, command |-> cmd, rest |-> r.rest, break |-> FALSE]
  ELSE IF r.next_arg # None
    THEN [err |-> None, step |-> Some(r), command |-> r.next_arg[1],
          rest |-> r.rest, break |-> FALSE]
  ELSE LET n == ParserNext(r.rest) IN
    IF n.arg = None
      THEN [err |-> None, step |-> Some(r), command |-> cmd, rest |-> n.rest,
            break |-> TRUE]
    ELSE IF n.arg[1].kind = "Value"
      THEN [err |-> None, step |-> Some(r), command |-> n.arg[1].s,
            rest |-> n.rest, break |-> FALSE]
    ELSE [err |-> Failure(Unexpected(n.arg[1]), None), step |-> Some(r),
          command |-> cmd, rest |-> n.rest, break |-> FALSE]

\* what one iteration of the loop of generate_script leaves:
\* the error it returned with, or the new locals and whether it broke out
LoopIteration(cmd, rest, ctx) ==
  AfterStep(cmd, GenerateStep(cmd, ResetParser(rest), ctx))

\* faulty variant of GenStepTo: the fragment of a step that ends on a
\* pushback is not pushed
GenStepTo_DropsOnPushback(it) ==
     /\ parser' = it.rest
     /\ command' = it.command
     /\ IF it.step # None
          THEN /\ full_script' = IF it.step[1].next_arg # None THEN full_script
                                 ELSE Append(full_script, it.step[1].script[1])
               /\ last_step_is_query' = it.step[1].is_query
               /\ steps' = Append(steps, [command |-> command,
                                           is_query |-> it.step[1].is_query,
                                           next_arg |-> it.step[1].next_arg])
        ELSE UNCHANGED <<full_script, last_step_is_query, steps>>
     /\ IF it.err # None THEN Return(it.err)
        ELSE /\ pc' = IF it.break THEN "gen_finish" ELSE "gen_step"
             /\ UNCHANGED <<error, file>>

\* generate_script: the state after an iteration that left `it`
GenStepTo(it) ==
     /\ parser' = it.rest
     /\ command' = it.command
     /\ IF it.step # None
          THEN /\ full_script' = Append(full_script, it.step[1].script[1])
               /\ last_step_is_query' = it.step[1].is_query
               /\ steps' = Append(steps, [command |-> command,
                                           is_query |-> it.step[1].is_query,
                                           next_arg |-> it.step[1].next_arg])
        ELSE UNCHANGED <<full_script, last_step_is_query, steps>>
     /\ IF it.err # None THEN Return(it.err)
        ELSE /\ pc' = IF it.break THEN "gen_finish" ELSE "gen_step"
             /\ UNCHANGED <<error, file>>

\* faulty variant of GenStep: the step adds its name to the base context
\* itself and not to a copy
GenStep_SharedContext ==
  /\ pc = "gen_step"
  /\ GenStepTo(LoopIteration(command, parser, context))
  /\ context' = AddContext(context, "step_name", command)
  /\ UNCHANGED <<argv, env_kde, opts, next_arg, out, script_contents>>
  /\ UNCHANGED sessionVars

\* generate_script: one iteration of the loop
GenStep ==
  /\ pc = "gen_step"
  /\ GenStepTo(LoopIteration(command, parser, context))
  /\ UNCHANGED <<argv, env_kde, context, opts, next_arg, out, script_contents>>
  /\ UNCHANGED sessionVars

\* the fragments generate_script pushes after the loop
Trailer(is_query, ctx) ==
  (IF is_query THEN <<Render("STEP_LAST_OUTPUT", ctx)>> ELSE <<>>)
    \o <<Render("SCRIPT_FOOTER", ctx)>>

\* generate_script: the last-result fragment, the footer, Ok(full_script)
GenFinish ==
  /\ pc = "gen_finish"
  /\ full_script' = full_script \o Trailer(last_step_is_query, context)
  /\ script_contents' = Some(full_script')
  /\ pc' = "compiled"
  /\ UNCHANGED <<argv, env_kde, context, opts, next_arg, parser, error, file, out,
                 command, last_step_is_query, steps>>
  /\ UNCHANGED sessionVars

(***************************************************************************)
(* main, after compilation: the IPC session.                               *)
(***************************************************************************)

\* faulty variant of WriteFile: the NamedTempFile is dropped once written,
\* which removes the file
WriteFile_DropsFile ==
  /\ pc = "compiled"
  /\ \E ok \in BOOLEAN :
       IF ok THEN file' = "removed" /\ pc' = "written" /\ UNCHANGED error
       ELSE Return(Failure("io: write failed", None))
  /\ UNCHANGED <<argv, env_kde, context, opts, next_arg, parser, out>>
  /\ UNCHANGED compileVars
  /\ UNCHANGED sessionVars

\* main: the script written to the temporary file
WriteFile ==
  /\ pc = "compiled"
  /\ \E ok \in BOOLEAN :
       IF ok THEN file' = "written" /\ pc' = "written" /\ UNCHANGED error
       ELSE Return(Failure("io: write failed", None))
  /\ UNCHANGED <<argv, env_kde, context, opts, next_arg, parser, out>>
  /\ UNCHANGED compileVars
  /\ UNCHANGED sessionVars

\* main: dry-run prints the trimmed script and returns
DryRunPrint ==
  /\ pc = "written"
  /\ opts.dry_run
  /\ out' = Append(out, [stream |-> "stdout", kind |-> "script",
                          text |-> Trim(script_contents[1])])
  /\ Return(None)
  /\ UNCHANGED <<argv, env_kde, context, opts, next_arg, parser>>
  /\ UNCHANGED compileVars
  /\ UNCHANGED sessionVars

\* main: loadScript(path, script_name) issued
LoadScriptCall ==
  /\ pc = "written"
  /\ ~opts.dry_run
  /\ Issue("loadScript", <<context.marker, context.script_name>>)
  /\ pc' = "load_wait"
  /\ UNCHANGED <<argv, env_kde, context, opts, next_arg, parser, error, file, out>>
  /\ UNCHANGED compileVars
  /\ UNCHANGED <<script_id, listener, delivered, MESSAGES, read_guard, drain_i, blocked>>

\* main: loadScript replies with the script id, or fails
LoadScriptReturn ==
  /\ pc = "load_wait"
  /\ \E ok \in BOOLEAN :
       /\ Reply("loadScript", ok)
       /\ IF ok THEN script_id' = Some(7) /\ pc' = "loaded" /\ UNCHANGED <<error, file>>
          ELSE Return(Failure("dbus: loadScript failed", None)) /\ UNCHANGED script_id
  /\ UNCHANGED <<argv, env_kde, context, opts, next_arg, parser, out>>
  /\ UNCHANGED compileVars
  /\ UNCHANGED <<calls, listener, delivered, MESSAGES, read_guard, drain_i, blocked>>

\* faulty variant of SpawnListener: the script proxy is made, the receiver
\* thread is not spawned
SpawnListener_NoThread ==
  /\ pc = "loaded"
  /\ pc' = "run_call"
  /\ UNCHANGED <<argv, env_kde, context, opts, next_arg, parser, error, file, out>>
  /\ UNCHANGED compileVars
  /\ UNCHANGED sessionVars

\* main: the script proxy made and the receiver thread spawned
SpawnListener ==
  /\ pc = "loaded"
  /\ listener' = TRUE
  /\ pc' = "run_call"
  /\ UNCHANGED <<argv, env_kde, context, opts, next_arg, parser, error, file, out>>
  /\ UNCHANGED compileVars
  /\ UNCHANGED <<calls, replies, script_id, delivered, MESSAGES, read_guard, drain_i, blocked>>

\* the receiver callback: one incoming method call; it is pushed to
\* MESSAGES when it has a member and a first string argument
Receive ==
  /\ listener
  /\ Running
  /\ ~read_guard
  /\ blocked = None
  /\ delivered < MaxMsgs
  /\ \E m \in Incoming :
       MESSAGES' = IF m.member # None /\ m.arg # None
                     THEN Append(MESSAGES, <<m.member[1], m.arg[1]>>)
                   ELSE MESSAGES
  /\ delivered' = delivered + 1
  /\ UNCHANGED <<argv, env_kde, pc, context, opts, next_arg, parser, error, file, out>>
  /\ UNCHANGED compileVars
  /\ UNCHANGED <<calls, replies, script_id, listener, read_guard, drain_i, blocked>>

\* the receiver callback while main holds MESSAGES.read(): a call with a
\* member and a first string argument waits in MESSAGES.write(), which the
\* read guard keeps from returning, and the receiver thread handles no
\* further call; any other call is handled without the lock
ReceiveBlocked ==
  /\ listener
  /\ Running
  /\ read_guard
  /\ blocked = None
  /\ delivered < MaxMsgs
  /\ \E m \in Incoming :
       blocked' = IF m.member # None /\ m.arg # None
                    THEN Some(<<m.member[1], m.arg[1]>>)
                  ELSE None
  /\ delivered' = delivered + 1
  /\ UNCHANGED <<argv, env_kde, pc, context, opts, next_arg, parser, error, file, out>>
  /\ UNCHANGED compileVars
  /\ UNCHANGED <<calls, replies, script_id, listener, MESSAGES, read_guard, drain_i>>

\* the receiver callback that waited in MESSAGES.write(): main has dropped
\* its read guard and the process has not ended yet, the entry is pushed
ReceiveUnblocked ==
  /\ listener
  /\ Running
  /\ ~read_guard
  /\ blocked # None
  /\ MESSAGES' = Append(MESSAGES, blocked[1])
  /\ blocked' = None
  /\ UNCHANGED <<argv, env_kde, pc, context, opts, next_arg, parser, error, file, out>>
  /\ UNCHANGED compileVars
  /\ UNCHANGED <<calls, replies, script_id, listener, delivered, read_guard, drain_i>>

\* main: run issued on the script proxy
RunCall ==
  /\ pc = "run_call"
  /\ Issue("run", <<>>)
  /\ pc' = "run_wait"
  /\ UNCHANGED <<argv, env_kde, context, opts, next_arg, parser, error, file, out>>
  /\ UNCHANGED compileVars
  /\ UNCHANGED <<script_id, listener, delivered, MESSAGES, read_guard, drain_i, blocked>>

\* faulty variant of AfterRun: stop is issued whether or not a shortcut
\* was asked for
AfterRun_AlwaysStop(shortcut) == "stop_call"

\* where main goes when run has replied
AfterRun(shortcut) == IF shortcut = "" THEN "stop_call" ELSE "journal"

\* faulty variant of RunReturn: the result of run is not looked at
RunReturn_IgnoresFailure ==
  /\ pc = "run_wait"
  /\ \E ok \in BOOLEAN :
       /\ Reply("run", ok)
       /\ pc' = AfterRun(context.shortcut) /\ UNCHANGED <<error, file>>
  /\ UNCHANGED <<argv, env_kde, context, opts, next_arg, parser, out>>
  /\ UNCHANGED compileVars
  /\ UNCHANGED <<calls, script_id, listener, delivered, MESSAGES, read_guard, drain_i, blocked>>

\* main: run replies, or fails
RunReturn ==
  /\ pc = "run_wait"
  /\ \E ok \in BOOLEAN :
       /\ Reply("run", ok)
       /\ IF ok THEN pc' = AfterRun(context.shortcut) /\ UNCHANGED <<error, file>>
          ELSE Return(Failure("dbus: run failed", None))
  /\ UNCHANGED <<argv, env_kde, context, opts, next_arg, parser, out>>
  /\ UNCHANGED compileVars
  /\ UNCHANGED <<calls, script_id, listener, delivered, MESSAGES, read_guard, drain_i, blocked>>

\* faulty variant of StopCall: stop is sent and main goes on without its
\* reply
StopCall_NoWait ==
  /\ pc = "stop_call"
  /\ Issue("stop", <<>>)
  /\ pc' = "journal"
  /\ UNCHANGED <<argv, env_kde, context, opts, next_arg, parser, error, file, out>>
  /\ UNCHANGED compileVars
  /\ UNCHANGED <<script_id, listener, delivered, MESSAGES, read_guard, drain_i, blocked>>

\* main: stop issued on the script proxy
StopCall ==
  /\ pc = "stop_call"
  /\ Issue("stop", <<>>)
  /\ pc' = "stop_wait"
  /\ UNCHANGED <<argv, env_kde, context, opts, next_arg, parser, error, file, out>>
  /\ UNCHANGED compileVars
  /\ UNCHANGED <<script_id, listener, delivered, MESSAGES, read_guard, drain_i, blocked>>

\* main: stop replies, or fails
StopReturn ==
  /\ pc = "stop_wait"
  /\ \E ok \in BOOLEAN :
       /\ Reply("stop", ok)
       /\ IF ok THEN pc' = "journal" /\ UNCHANGED <<error, file>>
          ELSE Return(Failure("dbus: stop failed", None))
  /\ UNCHANGED <<argv, env_kde, context, opts, next_arg, parser, out>>
  /\ UNCHANGED compileVars
  /\ UNCHANGED <<calls, script_id, listener, delivered, MESSAGES, read_guard, drain_i, blocked>>

\* main: journalctl run for the debug log
Journal ==
  /\ pc = "journal"
  /\ \E ok \in BOOLEAN :
       IF ok THEN pc' = "drain" /\ UNCHANGED <<error, file>>
       ELSE Return(Failure("io: journalctl failed", None))
  /\ UNCHANGED <<argv, env_kde, context, opts, next_arg, parser, out>>
  /\ UNCHANGED compileVars
  /\ UNCHANGED sessionVars

\* main: MESSAGES.read() taken; it is held to the end of main
DrainLock ==
  /\ pc = "drain"
  /\ read_guard' = TRUE
  /\ drain_i' = 1
  /\ pc' = "draining"
  /\ UNCHANGED <<argv, env_kde, context, opts, next_arg, parser, error, file, out>>
  /\ UNCHANGED compileVars
  /\ UNCHANGED <<calls, replies, script_id, listener, delivered, MESSAGES, blocked>>

\* faulty variant of PrintEntry: an error entry is printed like any other
\* tag
PrintEntry_NoErrorBranch(msgtype, message) ==
  IF msgtype = "result"
    THEN [stream |-> "stdout", kind |-> "line", text |-> message]
  ELSE [stream |-> "stdout", kind |-> "line", text |-> msgtype \o ": " \o message]

\* what the drain prints for one entry of the log
PrintEntry(msgtype, message) ==
  IF msgtype = "result"
    THEN [stream |-> "stdout", kind |-> "line", text |-> message]
  ELSE IF msgtype = "error"
    THEN [stream |-> "stderr", kind |-> "line", text |-> "ERROR: " \o message]
  ELSE [stream |-> "stdout", kind |-> "line", text |-> msgtype \o ": " \o message]

\* main: one iteration of the drain loop
DrainPrint ==
  /\ pc = "draining"
  /\ drain_i <= Len(MESSAGES)
  /\ out' = Append(out, PrintEntry(MESSAGES[drain_i][1], MESSAGES[drain_i][2]))
  /\ drain_i' = drain_i + 1
  /\ UNCHANGED <<argv, env_kde, pc, context, opts, next_arg, parser, error, file>>
  /\ UNCHANGED compileVars
  /\ UNCHANGED <<calls, replies, script_id, listener, delivered, MESSAGES, read_guard, blocked>>

\* what main prints when a shortcut was registered
ShortcutSummary(ctx, id) ==
  IF ctx.shortcut = "" THEN <<>>
  ELSE <<[stream |-> "stdout", kind |-> "line",
          text |-> "Shortcut registered: " \o ctx.shortcut],
         [stream |-> "stdout", kind |-> "line", text |-> "Script ID: " \o ToString(id)]>>
       \o (IF ctx.script_name = "" THEN <<>>
           ELSE <<[stream |-> "stdout", kind |-> "line",
                   text |-> "Script name: " \o ctx.script_name]>>)

\* main: the drain loop over, the shortcut summary, Ok(()); the read guard
\* is the first local that is dropped
Finish ==
  /\ pc = "draining"
  /\ drain_i > Len(MESSAGES)
  /\ out' = out \o ShortcutSummary(context, script_id[1])
  /\ read_guard' = FALSE
  /\ pc' = "exiting"
  /\ UNCHANGED <<argv, env_kde, context, opts, next_arg, parser, error, file>>
  /\ UNCHANGED compileVars
  /\ UNCHANGED <<calls, replies, script_id, listener, delivered, MESSAGES, drain_i, blocked>>

\* main: the other locals dropped, main returned; the process ends and
\* with it the receiver thread
Exit ==
  /\ pc = "exiting"
  /\ Return(None)
  /\ UNCHANGED <<argv, env_kde, context, opts, next_arg, parser, out>>
  /\ UNCHANGED compileVars
  /\ UNCHANGED sessionVars

(***************************************************************************)
(* Inputs and specifications.                                              *)
(***************************************************************************)

\* all sequences over S of length at most n
RECURSIVE SeqsUpTo(_, _)
SeqsUpTo(S, n) ==
  IF n = 0 THEN {<<>>}
  ELSE LET shorter == SeqsUpTo(S, n - 1) IN
       shorter \cup {Append(q, t) : q \in shorter, t \in S}

\* the tokens invocations of main are built from
SessionTokens ==
  {"-n", "-h", "-v", "-d", "-z", "--remove", "--shortcut", "--name", "foo",
   "getactivewindow"}

\* KDE_SESSION_VERSION: unset, or "5"; every other value leaves kde5 false
\* as the unset variable does
EnvValues == {None, Some("5")}

\* the state main starts in
StartState(av, env) ==
  /\ argv = av
  /\ env_kde = env
  /\ pc = "start"
  /\ context = InitialContext(av, env)
  /\ opts = [help |-> FALSE, version |-> FALSE, dry_run |-> FALSE, remove |-> FALSE]
  /\ next_arg = None
  /\ parser = av
  /\ command = ""
  /\ full_script = <<>>
  /\ last_step_is_query = FALSE
  /\ steps = <<>>
  /\ script_contents = None
  /\ error = None
  /\ file = "none"
  /\ calls = <<>>
  /\ replies = <<>>
  /\ script_id = None
  /\ listener = FALSE
  /\ delivered = 0
  /\ MESSAGES = <<>>
  /\ read_guard = FALSE
  /\ drain_i = 0
  /\ blocked = None
  /\ out = <<>>

Init == \E av \in SeqsUpTo(SessionTokens, MaxArgv), env \in EnvValues : StartState(av, env)

\* the directive phrases token streams for the compiler are built from:
\* every command alone, the argument forms of each grammar, stray tokens
Phrases ==
  {<<"search">>, <<"getactivewindow">>, <<"activatewindow">>, <<"windowclose">>,
   <<"savewindowstack">>, <<"loadwindowstack">>, <<"windowstate">>,
   <<"windowmove">>, <<"windowsize">>, <<"set_desktop_for_window">>,
   <<"set_desktop">>, <<"set_num_desktops">>, <<"get_desktop">>,
   <<"foo">>, <<"x">>, <<"5">>, <<"%2">>, <<"%@">>, <<"12345">>, <<"--bogus">>,
   <<"-z">>,
   <<"search", "foo">>, <<"search", "--class", "foo">>,
   <<"search", "--pid", "42", "term">>, <<"search", "--pid", "abc">>,
   <<"search", "--limit">>, <<"search", "--role", "--all", "--desktop", "2">>,
   <<"windowmove", "x", "50%">>, <<"windowmove", "100", "200">>,
   <<"windowmove", "abc", "5">>, <<"windowmove", "%1", "x", "50%">>,
   <<"windowmove", "%1", "100", "200">>, <<"windowmove", "%2", "abc", "5">>,
   <<"windowmove", "--relative", "%@", "50%", "y">>,
   <<"windowmove", "12345", "abc%", "5">>,
   <<"windowsize", "--relative", "%1", "1", "2">>,
   <<"windowsize", "%1", "100", "50%">>,
   <<"windowstate", "--add", "maximized", "--toggle", "minimized">>,
   <<"windowstate", "--add", "maximized">>,
   <<"windowstate", "%2", "--remove", "MAXIMIZED">>,
   <<"windowstate", "--add", "bogus">>, <<"windowstate", "--toggle">>,
   <<"activatewindow", "%2">>, <<"activatewindow", "%@">>,
   <<"activatewindow", "12345">>, <<"activatewindow", "%abc">>,
   <<"activatewindow", "windowclose">>,
   <<"savewindowstack", "foo">>, <<"loadwindowstack", "foo">>,
   <<"set_desktop", "2">>, <<"set_num_desktops", "3">>, <<"set_desktop", "abc">>,
   <<"set_desktop_for_window", "%1", "2">>, <<"set_desktop_for_window", "%1">>,
   <<"set_desktop_for_window", "abc">>}

\* the concatenations of at most n phrases
RECURSIVE PhraseConcats(_)
PhraseConcats(n) ==
  IF n = 0 THEN {<<>>}
  ELSE LET shorter == PhraseConcats(n - 1) IN
       shorter \cup {q \o ph : q \in shorter, ph \in Phrases}

\* the token streams generate_script is entered with: main hands it a
\* first command that the global options loop read as a Value
CompileInputs ==
  {t \in PhraseConcats(MaxPhrases) : t # <<>> /\ Classify(Head(t)).kind = "Value"}

\* the state main enters generate_script in, the global options loop
\* having left st: connected, private connection and temporary file made
EnteringCompile(av, env, st) ==
  /\ argv = av
  /\ env_kde = env
  /\ pc = "gen_header"
  /\ context = [st.context EXCEPT !.dbus_addr = ":1.99", !.marker = "kdotool-Xy12"]
  /\ opts = [help |-> st.opt_help, version |-> st.opt_version,
             dry_run |-> st.opt_dry_run, remove |-> st.opt_remove]
  /\ next_arg = st.next_arg
  /\ parser = st.rest
  /\ command = ""
  /\ full_script = <<>>
  /\ last_step_is_query = FALSE
  /\ steps = <<>>
  /\ script_contents = None
  /\ error = None
  /\ file = "created"
  /\ calls = <<>>
  /\ replies = <<>>
  /\ script_id = None
  /\ listener = FALSE
  /\ delivered = 0
  /\ MESSAGES = <<>>
  /\ read_guard = FALSE
  /\ drain_i = 0
  /\ blocked = None
  /\ out = <<>>

\* the compiler on every token stream, with and without -d, on KDE 5 and 6
InitCompile ==
  \E toks \in CompileInputs, d \in {<<>>, <<"-d">>}, env \in EnvValues :
    EnteringCompile(d \o toks, env, ParseGlobals(d \o toks, env))

MainNext ==
  \/ ParseGlobalOptions
  \/ ShowHelp
  \/ ShowVersion
  \/ ConnectKwin
  \/ RemoveCall
  \/ RemoveReturn
  \/ Prepare
  \/ WriteFile
  \/ DryRunPrint
  \/ LoadScriptCall
  \/ LoadScriptReturn
  \/ SpawnListener
  \/ RunCall
  \/ RunReturn
  \/ StopCall
  \/ StopReturn
  \/ Journal
  \/ DrainLock
  \/ DrainPrint
  \/ Finish
  \/ Exit

CompileNext == GenHeader \/ GenStep \/ GenFinish

Next == MainNext \/ CompileNext \/ Receive \/ ReceiveBlocked \/ ReceiveUnblocked

Spec == Init /\ [][Next]_vars

SpecCompile == InitCompile /\ [][CompileNext]_vars

(***************************************************************************)
(* Properties of the compiler, checked under SpecCompile.                  *)
(***************************************************************************)

\* the directive tokens generate_script was entered with: argv without the
\* global option in front of the first command
DirectiveTokens == IF argv # <<>> /\ Head(argv) = "-d" THEN Tail(argv) ELSE argv

\* the templates a step fragment is rendered from
StepTemplates ==
  {"STEP_SEARCH", "STEP_GETACTIVEWINDOW", "STEP_SAVEWINDOWSTACK",
   "STEP_LOADWINDOWSTACK", "STEP_ACTION_ON_STACK_ALL",
   "STEP_ACTION_ON_STACK_ITEM", "STEP_ACTION_ON_WINDOW_ID", "STEP_GLOBAL_ACTION"}

\* the directive a step fragment was rendered for: STEP_SEARCH is rendered
\* against the search options alone, every other step template against
\* bindings that hold step_name
FragmentCommand(f) == IF f.tpl = "STEP_SEARCH" THEN "search" ELSE f.ctx.step_name

\* s is t with some elements left out, the others in their order
RECURSIVE IsSubseq(_, _)
IsSubseq(s, t) ==
  IF s = <<>> THEN TRUE
  ELSE IF t = <<>> THEN FALSE
  ELSE IF Head(s) = Head(t) THEN IsSubseq(Tail(s), Tail(t))
  ELSE IsSubseq(s, Tail(t))

\* the names of the directives compiled so far, in order
StepCommands == [i \in 1..Len(steps) |-> steps[i].command]

\* the positions of full_script that hold the last-result fragment
LastOutputPositions ==
  {i \in 1..Len(full_script) : full_script[i].tpl = "STEP_LAST_OUTPUT"}

\* C1: when generate_script has compiled a pipeline of N directives, the
\* script is the header fragment, then exactly N step fragments, the i-th
\* rendered for the i-th directive and the directives in argument order,
\* then at most one last-result fragment, then the footer fragment; while
\* the loop runs the script is the header and one fragment per directive.
C1_OneFragmentPerDirective ==
  /\ pc \in {"gen_step", "gen_finish"} =>
       /\ Len(full_script) = Len(steps) + 1
       /\ full_script[1].tpl = "SCRIPT_HEADER"
  /\ pc = "compiled" =>
       /\ Len(steps) >= 1
       /\ Len(full_script) \in {Len(steps) + 2, Len(steps) + 3}
       /\ full_script[1].tpl = "SCRIPT_HEADER"
       /\ full_script[Len(full_script)].tpl = "SCRIPT_FOOTER"
       /\ \A i \in 1..Len(steps) :
            /\ full_script[i + 1].tpl \in StepTemplates
            /\ FragmentCommand(full_script[i + 1]) = steps[i].command
       /\ \A i \in (Len(steps) + 2)..(Len(full_script) - 1) :
            full_script[i].tpl = "STEP_LAST_OUTPUT"
       /\ IsSubseq(StepCommands, DirectiveTokens)
       /\ script_contents = Some(full_script)

\* a pipeline of two directives, the first ending on a pushback, compiled
C1_Witness ==
  /\ pc = "compiled"
  /\ Len(steps) = 2
  /\ steps[1].next_arg # None
  /\ Len(full_script) = 4

\* the commands whose step is a query
QueryCommands == {"search", "getactivewindow", "loadwindowstack"}

\* C2: after a successful compilation the script holds exactly one
\* last-result fragment, directly before the footer, when the final
\* directive is search, getactivewindow or loadwindowstack, and none when
\* it is any other directive; the earlier directives do not matter.
C2_LastOutputIffFinalQuery ==
  pc = "compiled" =>
    IF steps[Len(steps)].command \in QueryCommands
      THEN LastOutputPositions = {Len(full_script) - 1}
    ELSE LastOutputPositions = {}

\* a query followed by a final directive that is no query: no last-result
\* fragment
C2_Witness ==
  /\ pc = "compiled"
  /\ Len(steps) = 2
  /\ steps[1].command \in QueryCommands
  /\ steps[2].command = "savewindowstack"
  /\ LastOutputPositions = {}

\* C3: a value token that ends a directive is handed back as next_arg and
\* is the name of the next directive; 'search foo activatewindow' compiles
\* to exactly two steps, search with the term foo and then activatewindow,
\* the stream being empty after the first.
C3_PushbackNamesNextDirective ==
  /\ \A i \in 1..(Len(steps) - 1) :
       steps[i].next_arg # None => steps[i + 1].command = steps[i].next_arg[1]
  /\ (pc = "gen_step" /\ steps # <<>> /\ steps[Len(steps)].next_arg # None) =>
       command = steps[Len(steps)].next_arg[1]
  /\ DirectiveTokens = <<"search", "foo", "activatewindow">> =>
       /\ pc # "failed"
       /\ Len(steps) >= 1 =>
            /\ steps[1].command = "search"
            /\ steps[1].next_arg = Some("activatewindow")
            /\ full_script[2].tpl = "STEP_SEARCH"
            /\ full_script[2].ctx.search_term = "foo"
            /\ Len(steps) = 1 => parser = <<>> /\ pc = "gen_step"
       /\ pc = "compiled" =>
            /\ Len(steps) = 2
            /\ steps[2].command = "activatewindow"
            /\ FragmentCommand(full_script[3]) = "activatewindow"
            /\ LastOutputPositions = {}

\* 'search foo activatewindow' compiled
C3_Witness ==
  /\ DirectiveTokens = <<"search", "foo", "activatewindow">>
  /\ pc = "compiled"
  /\ Len(steps) = 2

\* the bindings of the action fragment inside the wrapper of the first step
FirstAction == full_script[2].ctx.action.ctx

\* C4: windowmove and windowsize without a window reference bind their two
\* values to the x axis and the y axis in that order, each a keyword (axis
\* unset), an integer (absolute) or an integer with % (percentage):
\* 'windowmove x 50%' compiles with x unset and y_percent 50,
\* 'windowmove 100 200' compiles with x 100 and y 200 as absolute values,
\* and 'windowmove abc 5' fails.
C4_AxesBoundInOrder ==
  /\ DirectiveTokens = <<"windowmove", "x", "50%">> =>
       /\ pc # "failed"
       /\ pc = "compiled" =>
            /\ FirstAction.x = "" /\ FirstAction.x_percent = ""
            /\ FirstAction.y = "" /\ FirstAction.y_percent = "50"
  /\ DirectiveTokens = <<"windowmove", "100", "200">> =>
       /\ pc # "failed"
       /\ pc = "compiled" =>
            /\ FirstAction.x = "100" /\ FirstAction.x_percent = ""
            /\ FirstAction.y = "200" /\ FirstAction.y_percent = ""
  /\ DirectiveTokens = <<"windowmove", "abc", "5">> => pc # "compiled"

\* the first positional token of the window-action that starts toks: the
\* token after the command, the flag --relative and the windowstate
\* options with their values skipped; None when the tokens end before it
RECURSIVE FirstPositional(_)
FirstPositional(toks) ==
  IF toks = <<>> THEN None
  ELSE IF Head(toks) = "--relative" THEN FirstPositional(Tail(toks))
  ELSE IF Head(toks) \in {"--add", "--remove", "--toggle"}
    THEN IF Len(toks) >= 2 THEN FirstPositional(Tail(Tail(toks))) ELSE None
  ELSE Some(Head(toks))

\* the stack references %N with their index, and the tokens of numeric shape
StackIndexOf == [s \in {"%1", "%2", "%3"} |-> CASE s = "%1" -> 1 [] s = "%2" -> 2 [] s = "%3" -> 3]

NumericTokens == {"1", "2", "3", "5", "42", "50", "100", "200", "12345"}

\* the window-actions whose argument loop goes on reading after a value
\* that is no window reference, so that a reference further on is taken
GrammarsReadingOn == {"windowstate", "windowmove", "windowsize"}

\* what C6 asks of the wrapper fragment f of a window-action whose first
\* positional token is tok
WrapperFor(cmd, tok, f) ==
  IF tok = None
    THEN f.tpl = "STEP_ACTION_ON_STACK_ITEM" /\ f.ctx.item_index = 1
  ELSE IF tok[1] = "%@" THEN f.tpl = "STEP_ACTION_ON_STACK_ALL"
  ELSE IF tok[1] \in DOMAIN StackIndexOf
    THEN f.tpl = "STEP_ACTION_ON_STACK_ITEM" /\ f.ctx.item_index = StackIndexOf[tok[1]]
  ELSE IF tok[1] \in NumericTokens
    THEN f.tpl = "STEP_ACTION_ON_WINDOW_ID" /\ f.ctx.window_id = tok[1]
  ELSE cmd \notin GrammarsReadingOn =>
         f.tpl = "STEP_ACTION_ON_STACK_ITEM" /\ f.ctx.item_index = 1

\* C6: the window reference of a window-action selects its wrapper: %@ the
\* all-stack wrapper, %N the stack-item wrapper with item_index N, a bare
\* id such as 12345 the explicit-id wrapper with that id, and no window
\* token (the tokens end, or the value that follows the command is no
\* reference) the stack-item wrapper with item_index 1.
C6_ReferenceSelectsWrapper ==
  (Len(steps) >= 1 /\ steps[1].command \in WINDOW_ACTIONS) =>
    /\ FragmentCommand(full_script[2]) = steps[1].command
    /\ WrapperFor(steps[1].command, FirstPositional(Tail(DirectiveTokens)),
                  full_script[2])

\* 'activatewindow %2' (or another window-action on %2) compiled on item 2
C6_Witness ==
  /\ Len(steps) >= 1
  /\ steps[1].command \in WINDOW_ACTIONS
  /\ Len(DirectiveTokens) >= 2
  /\ DirectiveTokens[2] = "%2"
  /\ full_script[2].tpl = "STEP_ACTION_ON_STACK_ITEM"
  /\ full_script[2].ctx.item_index = 2

(***************************************************************************)
(* Properties of main, checked under Spec.                                 *)
(***************************************************************************)

\* C5: an invocation with --remove and a script name that ends normally
\* has issued exactly one remote call, unloadScript(name), and has neither
\* rendered a template nor created a script file, whether or not a command
\* token follows the option.
C5_RemoveIssuesOneCall ==
  (opts.remove /\ ~opts.help /\ ~opts.version /\ pc = "done") =>
    /\ calls = <<[method |-> "unloadScript", args |-> <<context.script_name>>]>>
    /\ full_script = <<>>
    /\ script_contents = None
    /\ file = "none"

\* C7: a dry-run invocation on a command issues no remote call at all (no
\* loadScript, run, stop or unloadScript), starts no listener and prints
\* nothing but the script text.
C7_DryRunNoRemoteCalls ==
  (opts.dry_run /\ ~opts.help /\ ~opts.version /\ next_arg # None) =>
    /\ calls = <<>>
    /\ ~listener
    /\ \A i \in 1..Len(out) : out[i].kind = "script"

\* the methods of the remote calls issued, in order
CallMethods == [i \in 1..Len(calls) |-> calls[i].method]

\* s is the beginning of t
IsPrefix(s, t) == Len(s) <= Len(t) /\ \A i \in 1..Len(s) : s[i] = t[i]

\* C8: without --remove the remote calls are loadScript, run, stop in this
\* order, each at most once; a call is issued only when the one before it
\* has returned, so at most one call is in flight; stop is issued only
\* when no shortcut was asked for, and then it is the next thing main does
\* once run has returned.
C8_CallsStrictlySequential ==
  ~opts.remove =>
    /\ IsPrefix(CallMethods, <<"loadScript", "run", "stop">>)
    /\ Len(replies) <= Len(calls)
    /\ Len(calls) <= Len(replies) + 1
    /\ \A i \in 1..Len(replies) : replies[i].method = calls[i].method
    /\ \A i \in 1..(Len(calls) - 1) : replies[i].ok
    /\ Len(calls) = 3 => context.shortcut = ""
    /\ (Len(replies) >= 2 /\ replies[2].ok /\ context.shortcut = "") =>
         pc = "stop_call" \/ Len(calls) = 3
    /\ (Len(replies) >= 2 /\ replies[2].ok /\ context.shortcut # "") =>
         pc \in {"journal", "drain", "draining", "exiting", "done", "failed"}

\* a run without shortcut that ended: loadScript, run and stop all returned
C8_Witness ==
  /\ pc = "done"
  /\ ~opts.remove
  /\ Len(calls) = 3
  /\ Len(replies) = 3
  /\ replies[3].ok

\* what the main flow owns: its position, its output and its calls
MainFlow == <<pc, out, drain_i, read_guard, calls, replies, error, file, script_id>>

\* a step that changes the log is a step of the listener: it appends one
\* entry and the main flow does not move
LogWrittenByListenerOnly ==
  MESSAGES' # MESSAGES =>
    /\ listener
    /\ UNCHANGED MainFlow
    /\ Len(MESSAGES') = Len(MESSAGES) + 1
    /\ SubSeq(MESSAGES', 1, Len(MESSAGES)) = MESSAGES

\* the main flow holds the read guard, or has read entries, only when run
\* has returned and no call is in flight
LogReadAfterCallsReturned ==
  (read_guard \/ drain_i > 0) =>
    /\ Len(replies) = Len(calls)
    /\ Len(replies) >= 2
    /\ replies[2].method = "run"
    /\ \A i \in 1..Len(replies) : replies[i].ok

\* C9: the log has one writer, the listener thread: the main flow never
\* appends to it; and the main flow reads it only after run, and stop when
\* stop is issued, have returned.
C9_SingleWriterReadAfterCalls ==
  [](LogReadAfterCallsReturned) /\ [][LogWrittenByListenerOnly]_vars

\* the drain under way on a log the listener wrote, stop having returned
C9_Witness ==
  /\ pc = "draining"
  /\ read_guard
  /\ Len(MESSAGES) >= 1
  /\ Len(replies) = 3

\* the line C10 asks for an entry of the log
ExpectedLine(entry) ==
  IF entry[1] = "result"
    THEN [stream |-> "stdout", kind |-> "line", text |-> entry[2]]
  ELSE IF entry[1] = "error"
    THEN [stream |-> "stderr", kind |-> "line", text |-> "ERROR: " \o entry[2]]
  ELSE [stream |-> "stdout", kind |-> "line", text |-> entry[1] \o ": " \o entry[2]]

\* the entries the drain has passed are printed, in order and once, each
\* as the line its tag asks for; once the loop is over, nothing else has
\* been printed unless a shortcut was registered
DrainedInOrder ==
  drain_i >= 1 =>
    /\ drain_i <= Len(MESSAGES) + 1
    /\ Len(out) >= drain_i - 1
    /\ \A i \in 1..(drain_i - 1) : out[i] = ExpectedLine(MESSAGES[i])
    /\ pc = "draining" => Len(out) = drain_i - 1
    /\ pc \in {"exiting", "done"} =>
         /\ context.shortcut = "" => Len(out) = drain_i - 1
         /\ \A i \in drain_i..Len(out) :
              out[i] \notin {ExpectedLine(MESSAGES[j]) : j \in 1..Len(MESSAGES)}

\* the log does not change while the main flow holds it, and the main flow
\* lets go of it only when the drain has passed its last entry
DrainPassesWholeLog ==
  read_guard =>
    /\ MESSAGES' = MESSAGES
    /\ ~read_guard' => drain_i = Len(MESSAGES) + 1

\* C10: the drain prints the entries of the log in arrival order, each
\* once: result as its payload on stdout, error as 'ERROR: <payload>' on
\* stderr, any other tag as '<tag>: <payload>' on stdout; no entry that is
\* in the log when the drain starts is printed twice, reordered or skipped.
C10_DrainInArrivalOrder ==
  [](DrainedInOrder) /\ [][DrainPassesWholeLog]_vars

\* a log of an error and then a passthrough entry, drained
C10_Witness ==
  /\ pc = "done"
  /\ Len(MESSAGES) = 2
  /\ MESSAGES[1][1] = "error"
  /\ MESSAGES[2][1] = "ping"
  /\ Len(out) = 2

\* generate_step returns Err(..) for the directive the loop is at
DirectiveFails ==
  /\ pc = "gen_step"
  /\ GenerateStep(command, ResetParser(parser), context).err # None

\* the step main takes when the directive it is at fails: main ends with
\* the error of the directive under the context naming the directive,
\* nothing is added to the script and no script text is returned
FailingDirectiveAborts ==
  DirectiveFails =>
    /\ pc' = "failed"
    /\ error' # None
    /\ error'[1].msg = GenerateStep(command, ResetParser(parser), context).err[1]
    /\ error'[1].context = Some("in command '" \o command \o "'")
    /\ UNCHANGED <<full_script, steps, script_contents, calls, listener, out>>
    /\ file' = "removed"

\* an invocation that has ended with an error goes no further
FailedIsFinal == pc = "failed" => UNCHANGED vars

\* while no script text was returned, nothing was written to the file, no
\* loadScript, run or stop was issued and no listener runs
NoScriptNoSession ==
  script_contents = None =>
    /\ file # "written"
    /\ \A i \in 1..Len(calls) : calls[i].method = "unloadScript"
    /\ ~listener

\* C11: when compiling a directive fails, compilation aborts at once: no
\* later directive is compiled, no script text is returned or written to
\* the temporary file, no loadScript, run or stop is issued, and the error
\* carries the context "in command '<name>'" of the directive that failed.
C11_FailingDirectiveAbortsCompilation ==
  /\ [][FailingDirectiveAborts]_vars
  /\ [][FailedIsFinal]_vars
  /\ [](NoScriptNoSession)

\* the second directive of a pipeline has failed: the script holds the
\* header and the fragment of the first, main has ended with the error
C11_Witness ==
  /\ pc = "failed"
  /\ Len(steps) = 1
  /\ Len(full_script) = 2
  /\ script_contents = None
  /\ error # None
  /\ error[1].context = Some("in command '" \o command \o "'")

\* the tokens of window-reference shape
ReferenceTokens == NumericTokens \cup DOMAIN StackIndexOf \cup {"%@"}

\* a bare value that is no window reference
IsBareNonReference(tok) ==
  Classify(tok).kind = "Value" /\ tok \notin ReferenceTokens

\* the window-actions whose grammar has no positional argument but the
\* window reference
ReferenceOnlyActions == {"windowstate", "activatewindow", "windowclose"}

\* C12: in a window-action without window reference the first bare value
\* that is no reference and no argument of the grammar becomes the name of
\* the next directive and no later token replaces it; 'windowstate --add
\* maximized search foo' compiles to two steps, windowstate on stack item 1
\* and then search with the term foo.
C12_FirstValueNamesNextDirective ==
  /\ (/\ Len(steps) >= 1
      /\ steps[1].command \in ReferenceOnlyActions
      /\ FirstPositional(Tail(DirectiveTokens)) # None
      /\ IsBareNonReference(FirstPositional(Tail(DirectiveTokens))[1])) =>
       steps[1].next_arg = FirstPositional(Tail(DirectiveTokens))
  /\ DirectiveTokens = <<"windowstate", "--add", "maximized", "search", "foo">> =>
       /\ pc # "failed"
       /\ pc = "compiled" =>
            /\ Len(steps) = 2
            /\ full_script[2].tpl = "STEP_ACTION_ON_STACK_ITEM"
            /\ full_script[2].ctx.item_index = 1
            /\ steps[2].command = "search"
            /\ full_script[3].tpl = "STEP_SEARCH"
            /\ full_script[3].ctx.search_term = "foo"

\* the mutation one windowstate flag stands for, as the statement it adds
MutationText(flag, prop) ==
  IF flag = "--add" THEN "w." \o prop \o " = true; "
  ELSE IF flag = "--remove" THEN "w." \o prop \o " = false; "
  ELSE "w." \o prop \o " = !w." \o prop \o "; "

\* a windowstate directive read token by token: its flags with known
\* properties, at most one window reference among them, up to the end of
\* the tokens or to the value after the reference.  kind is "ok" with the
\* mutations in js, "unknown" at a flag whose property is not in the
\* table, "open" for every other shape of directive
RECURSIVE WindowstateScan(_, _, _)
WindowstateScan(toks, seenRef, js) ==
  IF toks = <<>> THEN [kind |-> "ok", js |-> js]
  ELSE IF Head(toks) \in {"--add", "--remove", "--toggle"}
    THEN IF Len(toks) < 2 THEN [kind |-> "open", js |-> js]
         ELSE IF ToLowercase(toks[2]) \in WINDOWSTATE_PROPERTIES
           THEN WindowstateScan(Tail(Tail(toks)), seenRef,
                                js \o MutationText(Head(toks), ToLowercase(toks[2])))
         ELSE [kind |-> "unknown", js |-> js]
  ELSE IF Head(toks) \in ReferenceTokens /\ ~seenRef
    THEN WindowstateScan(Tail(toks), TRUE, js)
  ELSE IF Classify(Head(toks)).kind = "Value" /\ seenRef
    THEN [kind |-> "ok", js |-> js]
  ELSE [kind |-> "open", js |-> js]

\* what C13 asks of a pipeline that starts with a windowstate directive
\* read as scan
WindowstateAsScanned(scan) ==
  /\ (scan.kind = "ok" /\ Len(steps) >= 1) =>
       /\ full_script[2].ctx.action.tpl = "WINDOW_ACTIONS.windowstate"
       /\ FirstAction.windowstate = scan.js
  /\ scan.kind = "unknown" =>
       /\ steps = <<>>
       /\ pc \in {"gen_header", "gen_step", "failed"}
       /\ pc = "failed" => error[1].context = Some("in command 'windowstate'")

\* C13: every --add, --remove or --toggle flag of a windowstate directive
\* with a known property adds one mutation, and the rendered step holds
\* the mutations in the order of the flags ('--add maximized --toggle
\* minimized' gives set maximized, then toggle minimized); a flag with a
\* property that is not in the table fails the compilation and no step is
\* produced.
C13_WindowstateMutationsInOrder ==
  (DirectiveTokens # <<>> /\ Head(DirectiveTokens) = "windowstate") =>
    /\ WindowstateAsScanned(WindowstateScan(Tail(DirectiveTokens), FALSE, ""))
    /\ DirectiveTokens =
         <<"windowstate", "--add", "maximized", "--toggle", "minimized">> =>
         /\ pc # "failed"
         /\ Len(steps) >= 1 =>
              FirstAction.windowstate =
                "w.maximized = true; w.minimized = !w.minimized; "

\* 'windowstate --add maximized --toggle minimized' compiled
C13_Witness ==
  /\ DirectiveTokens = <<"windowstate", "--add", "maximized", "--toggle", "minimized">>
  /\ pc = "compiled"
  /\ FirstAction.windowstate = "w.maximized = true; w.minimized = !w.minimized; "

\* the attribute flags of search with the binding each one sets
AttributeFlags ==
  [f \in {"--class", "--classname", "--role", "--name"} |->
     CASE f = "--class" -> "match_class"
       [] f = "--classname" -> "match_classname"
       [] f = "--role" -> "match_role"
       [] f = "--name" -> "match_name"]

\* the attribute flags given in the search directive whose arguments are
\* toks: the flags up to the end of the tokens or to the value after the
\* search term; the value of an integer option is skipped
RECURSIVE AttributeFlagsGiven(_, _)
AttributeFlagsGiven(toks, termSeen) ==
  IF toks = <<>> THEN {}
  ELSE IF Head(toks) \in DOMAIN AttributeFlags
    THEN {Head(toks)} \cup AttributeFlagsGiven(Tail(toks), termSeen)
  ELSE IF Head(toks) \in {"--all", "--any"}
    THEN AttributeFlagsGiven(Tail(toks), termSeen)
  ELSE IF Head(toks) \in {"--pid", "--desktop", "--screen", "--limit"}
    THEN IF Len(toks) >= 2 THEN AttributeFlagsGiven(Tail(Tail(toks)), termSeen)
         ELSE {}
  ELSE IF Classify(Head(toks)).kind = "Value" /\ ~termSeen
    THEN AttributeFlagsGiven(Tail(toks), TRUE)
  ELSE {}

\* what C14 asks of the bindings opt of a search step given the attribute
\* flags `given`
AttributeMatchesAre(opt, given) ==
  \A f \in DOMAIN AttributeFlags :
    opt[AttributeFlags[f]] = (given = {} \/ f \in given)

\* C14: a search directive without any of --class, --classname, --role
\* and --name matches on all four attributes, other flags leaving this
\* default in force ('search --pid 42 term' gives match_pid, pid 42, the
\* four attribute matches and the term 'term'); with at least one of the
\* four flags exactly the attributes given are matched.
C14_SearchAttributeDefaults ==
  (Len(steps) >= 1 /\ steps[1].command = "search") =>
    /\ full_script[2].tpl = "STEP_SEARCH"
    /\ AttributeMatchesAre(full_script[2].ctx,
                           AttributeFlagsGiven(Tail(DirectiveTokens), FALSE))
    /\ (/\ Len(DirectiveTokens) >= 4
        /\ SubSeq(DirectiveTokens, 1, 4) = <<"search", "--pid", "42", "term">>) =>
         /\ full_script[2].ctx.match_pid
         /\ full_script[2].ctx.pid = 42
         /\ full_script[2].ctx.match_class
         /\ full_script[2].ctx.match_classname
         /\ full_script[2].ctx.match_role
         /\ full_script[2].ctx.match_name
         /\ full_script[2].ctx.search_term = "term"

\* 'search --class foo' compiled: one attribute given, one matched
C14_Witness ==
  /\ DirectiveTokens = <<"search", "--class", "foo">>
  /\ pc = "compiled"
  /\ full_script[2].ctx.match_class
  /\ ~full_script[2].ctx.match_name

\* C15: a token that does not fit the grammar of the directive it follows
\* is rejected with an unexpected-argument error that names the directive,
\* also when the directive takes no arguments: 'getactivewindow --bogus'
\* and 'get_desktop --bogus' fail in command 'getactivewindow' and in
\* command 'get_desktop'.
C15_UnexpectedArgumentNamesDirective ==
  /\ (pc = "failed" /\ error[1].msg = "unexpected argument") =>
       error[1].context = Some("in command '" \o command \o "'")
  /\ DirectiveTokens = <<"getactivewindow", "--bogus">> =>
       /\ pc # "compiled"
       /\ pc = "failed" => error[1].context = Some("in command 'getactivewindow'")
  /\ DirectiveTokens = <<"get_desktop", "--bogus">> =>
       /\ pc # "compiled"
       /\ pc = "failed" => error[1].context = Some("in command 'get_desktop'")

\* the remote call `method` has been issued and has not returned
InFlight(method) ==
  /\ Len(calls) = Len(replies) + 1
  /\ calls[Len(calls)].method = method

\* C16: the temporary script file is there, completely written, from
\* before loadScript is issued until loadScript has returned: main issues
\* the call only on a written file and removes the file on no path while
\* the call is in flight.
C16_ScriptFilePresentDuringLoad ==
  /\ (pc = "load_wait" \/ InFlight("loadScript")) =>
       /\ file = "written"
       /\ script_contents # None
       /\ InFlight("loadScript")
  /\ pc = "loaded" => file = "written"
  /\ (\E i \in 1..Len(calls) : calls[i].method = "loadScript") =>
       file \in {"written", "removed"}
  /\ file = "removed" => pc \in {"done", "failed"}

\* loadScript is in flight on the written file
C16_Witness ==
  /\ pc = "load_wait"
  /\ InFlight("loadScript")
  /\ file = "written"

\* C17: a remote call that fails or times out is fatal and is not
\* retried: no call is issued after it, so after a failed loadScript no
\* listener is started and run is not issued, and after a failed run stop
\* is not issued; no entry of the log is printed and main ends with an
\* error.
C17_FailedCallIsFatal ==
  \A i \in 1..Len(replies) :
    ~replies[i].ok =>
      /\ Len(calls) = i
      /\ Len(replies) = i
      /\ pc = "failed"
      /\ error # None
      /\ out = <<>>
      /\ drain_i = 0
      /\ ~read_guard
      /\ replies[i].method = "loadScript" => ~listener /\ MESSAGES = <<>>

\* run has failed while the listener had logged an entry: main has ended
\* with the error, nothing is printed
C17_Witness ==
  /\ Len(replies) = 2
  /\ replies[2].method = "run"
  /\ ~replies[2].ok
  /\ pc = "failed"
  /\ MESSAGES # <<>>
  /\ out = <<>>

\* a listener runs only without --dry-run and --remove and only once
\* loadScript has returned successfully; run is issued only with the
\* listener running; the log is written only with it; and while main runs
\* and does not hold its read guard, the listener takes the next call, or
\* first pushes the entry a callback of it has waited to push
ListenerOnlyInSession ==
  /\ listener =>
       /\ ~opts.dry_run
       /\ ~opts.remove
       /\ Len(replies) >= 1
       /\ replies[1].method = "loadScript"
       /\ replies[1].ok
  /\ (\E i \in 1..Len(calls) : calls[i].method \in {"run", "stop"}) => listener
  /\ ~listener => MESSAGES = <<>> /\ delivered = 0
  /\ (listener /\ Running /\ ~read_guard /\ blocked = None /\ delivered < MaxMsgs) =>
       ENABLED Receive
  /\ (listener /\ Running /\ ~read_guard /\ blocked # None) => ENABLED ReceiveUnblocked

\* the listener is started in one step only, between loadScript having
\* returned and run being issued, and is never stopped; the log changes
\* only by the append of member name and first string argument of a call
ListenerStartedOnce ==
  /\ listener' # listener =>
       /\ ~listener
       /\ listener'
       /\ pc = "loaded"
       /\ pc' = "run_call"
       /\ CallMethods = <<"loadScript">>
       /\ calls' = calls
  /\ MESSAGES' # MESSAGES =>
       \E m \in Incoming :
         /\ m.member # None
         /\ m.arg # None
         /\ MESSAGES' = Append(MESSAGES, <<m.member[1], m.arg[1]>>)

\* C18: at most one listener is started in an invocation, only without
\* --dry-run and --remove, after loadScript has returned successfully and
\* before run is issued; once started it is never stopped and appends
\* member name and first string argument of the incoming calls to the log.
C18_OneListenerPerSession ==
  [](ListenerOnlyInSession) /\ [][ListenerStartedOnce]_vars

\* the listener runs, run has not been issued yet, the log is still empty
C18_Witness ==
  /\ listener
  /\ pc = "run_call"
  /\ CallMethods = <<"loadScript">>
  /\ MESSAGES = <<>>

\* C19: a set_desktop_for_window directive compiles only with an integer
\* desktop id supplied: the action of its step is bound to that id, and
\* with only a window reference or without any argument compilation fails
\* and no step is rendered.
C19_DesktopIdRequired ==
  /\ (/\ Len(steps) >= 1
      /\ steps[1].command = "set_desktop_for_window") =>
       FirstAction.desktop_id # None
  /\ DirectiveTokens \in {<<"set_desktop_for_window">>,
                          <<"set_desktop_for_window", "%1">>} =>
       /\ pc # "compiled"
       /\ steps = <<>>

\* the step-local keys the compilation of a directive may add to its copy
\* of the base context, by the template the copy is rendered with
OwnKeys(tpl) ==
  CASE tpl = "STEP_GETACTIVEWINDOW" -> {"step_name"}
    [] tpl \in {"STEP_SAVEWINDOWSTACK", "STEP_LOADWINDOWSTACK"} -> {"step_name", "name"}
    [] tpl \in {"STEP_ACTION_ON_STACK_ALL", "STEP_GLOBAL_ACTION"} ->
         {"step_name", "action"}
    [] tpl = "STEP_ACTION_ON_STACK_ITEM" -> {"step_name", "action", "item_index"}
    [] tpl = "STEP_ACTION_ON_WINDOW_ID" -> {"step_name", "action", "window_id"}
    [] tpl = "WINDOW_ACTIONS.windowstate" -> {"step_name", "windowstate"}
    [] tpl \in {"WINDOW_ACTIONS.windowmove", "WINDOW_ACTIONS.windowsize"} ->
         {"step_name", "relative", "x", "y", "x_percent", "y_percent"}
    [] tpl = "WINDOW_ACTIONS.set_desktop_for_window" -> {"step_name", "desktop_id"}
    [] tpl \in {"GLOBAL_ACTIONS.set_desktop", "GLOBAL_ACTIONS.set_num_desktops"} ->
         {"step_name", "n"}
    [] OTHER -> {"step_name"}

\* the fragment f of directive cmd is rendered against the base context
\* extended with keys of its own template only, and names that directive
LayeredOnBase(f, cmd) ==
  /\ DOMAIN context \subseteq DOMAIN f.ctx
  /\ \A k \in DOMAIN context : f.ctx[k] = context[k]
  /\ (DOMAIN f.ctx) \ (DOMAIN context) \subseteq OwnKeys(f.tpl)
  /\ OwnKeys(f.tpl) \cap DOMAIN context = {}
  /\ f.ctx.step_name = cmd

\* the fragment at position i of the script does not see a key of another
\* step: header, last-result fragment and footer are rendered against the
\* base context as it is, a search step against its own options, every
\* other step and the action inside it against its own extension
FragmentSeesOwnKeysOnly(i) ==
  LET f == full_script[i] IN
  IF f.tpl \in {"SCRIPT_HEADER", "STEP_LAST_OUTPUT", "SCRIPT_FOOTER"}
    THEN f.ctx = context
  ELSE IF f.tpl = "STEP_SEARCH"
    THEN DOMAIN f.ctx = DOMAIN SearchOptions(context)
  ELSE /\ i - 1 \in 1..Len(steps)
       /\ LayeredOnBase(f, steps[i - 1].command)
       /\ "action" \in DOMAIN f.ctx =>
            LayeredOnBase(f.ctx.action, steps[i - 1].command)

\* no step of the compilation changes the base context
BaseContextKept ==
  pc \in {"gen_header", "gen_step", "gen_finish"} => context' = context

\* C20: compiling a directive never changes the base binding context; each
\* step renders against its own copy extended with its step-local keys, so
\* no key added for one step is seen by a later step, by the last-result
\* fragment or by the footer.
C20_StepKeysStayLocal ==
  /\ [](\A i \in 1..Len(full_script) : FragmentSeesOwnKeysOnly(i))
  /\ [][BaseContextKept]_vars

\* a compiled script of two steps with different keys of their own and a
\* last-result fragment: a named stack step, then a query
C20_Witness ==
  /\ pc = "compiled"
  /\ Len(steps) = 2
  /\ Len(full_script) = 5
  /\ full_script[2].tpl \in {"STEP_SAVEWINDOWSTACK", "STEP_LOADWINDOWSTACK"}
  /\ "name" \in DOMAIN full_script[2].ctx
  /\ full_script[3].tpl = "STEP_GETACTIVEWINDOW"
  /\ full_script[4].tpl = "STEP_LAST_OUTPUT"
  /\ full_script[5].tpl = "SCRIPT_FOOTER"

\* C21: every step fragment, the search step included, is rendered against
\* bindings that carry the session's own values: the kde5 flag and the
\* debug flag bound for a search step equal those of the session, and
\* every other step carries all fields of the session context unchanged.
C21_StepsCarrySessionValues ==
  \A i \in 1..Len(full_script) :
    LET f == full_script[i] IN
    IF f.tpl = "STEP_SEARCH"
      THEN /\ f.ctx.kde5 = context.kde5
           /\ f.ctx.debug = context.debug
    ELSE \A k \in DOMAIN context : f.ctx[k] = context[k]

\* the commands whose grammar takes no bare value but a window reference:
\* a command name that follows one of them can only be the next directive
NoValueCommands ==
  {"getactivewindow", "get_desktop", "activatewindow", "windowclose", "windowstate"}

\* the option tokens among toks
OptionTokens(toks) ==
  {i \in 1..Len(toks) : Classify(toks[i]).kind # "Value"}

\* C22: in a successful compilation every token after the global options
\* is used exactly once, as the name of a directive or as one argument of
\* the directive it follows, and none is dropped or overwritten: a stream
\* of names of commands that take no value compiles to one step per name,
\* and a windowmove or windowsize compiled as the only step from values
\* alone has used its name, at most one window reference, x and y.
C22_EveryTokenUsedOnce ==
  pc = "compiled" =>
    /\ (\A i \in 1..Len(DirectiveTokens) : DirectiveTokens[i] \in NoValueCommands) =>
         StepCommands = DirectiveTokens
    /\ (/\ Len(steps) = 1
        /\ steps[1].command \in {"windowmove", "windowsize"}
        /\ OptionTokens(DirectiveTokens) = {}) =>
         Len(DirectiveTokens) <= 4

\* C23: in a normal invocation without a shortcut every callback message
\* is printed by the main flow: when the process has ended normally, each
\* entry of the log has been printed, and no call that arrived after stop
\* had returned is left waiting to be logged.
C23_NoMessageLeftUnprinted ==
  (pc = "done" /\ listener /\ context.shortcut = "") =>
    /\ Len(out) = Len(MESSAGES)
    /\ \A i \in 1..Len(MESSAGES) : out[i] = ExpectedLine(MESSAGES[i])
    /\ blocked = None

\* generate_script has returned, with the script or with an error
CompileReturned == pc \in {"compiled", "failed"}

\* the tokens of the stream account for the compile loop: every step
\* compiled and the command the loop is at have each taken a token of their
\* own from the stream, and these and the tokens not read yet are never
\* more than the tokens generate_script was entered with
TokensBoundSteps ==
  /\ Len(steps) <= Len(DirectiveTokens)
  /\ pc = "gen_header" => Len(parser) + 1 = Len(DirectiveTokens)
  /\ pc = "gen_step" => Len(steps) + 1 + Len(parser) <= Len(DirectiveTokens)
  /\ pc \in {"gen_finish", "compiled"} => parser = <<>> /\ Len(steps) >= 1

\* one iteration of the compile loop returns with an error, or compiles one
\* more step and then either ends the loop or has taken at least one token
\* more from the stream
IterationTakesToken ==
  pc = "gen_step" =>
    \/ pc' = "failed" /\ Len(steps') <= Len(steps) + 1
    \/ /\ Len(steps') = Len(steps) + 1
       /\ \/ pc' = "gen_finish"
          \/ pc' = "gen_step" /\ Len(parser') < Len(parser)

\* until generate_script has returned it is at the header, at an iteration
\* of the loop or at the trailer, none of which waits for anything
CompileNotStuck ==
  ~CompileReturned => pc \in {"gen_header", "gen_step", "gen_finish"}

\* C24: generate_script terminates on every finite token stream, with the
\* script or with an error: each iteration of the compile loop takes at
\* least one token not taken before or ends the loop, so the number of
\* steps compiled never exceeds the number of tokens.
C24_CompileTerminates ==
  /\ [](TokensBoundSteps /\ CompileNotStuck)
  /\ [][IterationTakesToken]_vars

\* a script compiled from as many directives as there are tokens
C24_Witness ==
  /\ pc = "compiled"
  /\ Len(steps) = 2
  /\ Len(DirectiveTokens) = 2
  /\ parser = <<>>
====
